---- MODULE Spec2Model ----
(***************************************************************************)
(* Authentication and session subsystem of Oneverter:                      *)
(*   utils/auth/rate_limiter.py       RateLimiter                          *)
(*   utils/auth/jwt_manager.py        JWTManager                           *)
(*   utils/secure_session_manager.py  SecureSessionManager                 *)
(*   utils/secure_user_manager.py     SecureUserManager                    *)
(*                                                                         *)
(* Time.  time.time() and datetime.now() are floating point seconds.  The  *)
(* model counts the clock in ticks of half a second (TicksPerSecond = 2),  *)
(* so that the truncating conversions of the code (int(...), the integer   *)
(* "exp"/"iat" claims of a JWT) are conversions here too.                  *)
(***************************************************************************)
EXTENDS Integers, Sequences, FiniteSets, TLC

VARIABLES
    now,              \* the wall clock, in ticks
    config,           \* RateLimiter constructor arguments (rate_limiter.py:50-55)
    login_attempts,   \* RateLimiter.login_attempts : email -> deque of timestamps
    failed_attempts,  \* RateLimiter.failed_attempts : email -> consecutive failures
    lockouts,         \* RateLimiter.lockouts : email -> lockout_until
    rate_limit_data,  \* the file rate_limit_data.json
    streak,           \* history: failures recorded per email since its last success
    jwt_config,       \* JWTManager constructor arguments (jwt_manager.py:45-47)
    jwt_secret,       \* JWTManager.jwt_secret and the Fernet key generated with it
    keyring,          \* the "Oneverter" entries of the OS keyring
    next_key,         \* secrets.token_urlsafe(32): the next fresh key
    blacklist,        \* JWTManager.blacklist : set of jti
    blacklist_file,   \* the file token_blacklist.json
    next_jti,         \* secrets.token_urlsafe(16): the next fresh jti
    issued,           \* history: the tokens handed out, with the identity they were made for
    revoked,          \* history: the validly signed tokens blacklist_token was called on
    sm_config,        \* SecureSessionManager constructor arguments (secure_session_manager.py:43-45)
    sessions,         \* SecureSessionManager.sessions : session_id -> session record
    secure_sessions,  \* the file secure_sessions.enc
    sm_key,           \* the Fernet key of the SecureStorage instance of the session manager
    next_sid,         \* secrets.token_urlsafe(32): the next fresh session id
    users,            \* SecureUserManager.users : email -> user record
    current_user,     \* SecureUserManager.current_user, as the email whose profile dict it is
    current_session,  \* SecureUserManager.current_session
    um_sessions,      \* the file sessions.enc, as the SecureUserManager's storage decrypts it
    password_history, \* PasswordService.password_history and password_history.json
    threads,          \* the threads inside SecureUserManager.login : thread -> its position and locals
    audit_config,     \* AuditLogger constructor arguments (audit_logger.py:62-63)
    events,           \* AuditLogger.events : list of the events kept, oldest first
    audit_logs,       \* the file audit_logs.json
    next_event,       \* uuid.uuid4(): the next fresh event id
    rl_lock,          \* RateLimiter._lock : the thread that holds it, or NoThread
    last              \* history: the last operation, its arguments and its result

rlvars == <<config, login_attempts, failed_attempts, lockouts, rate_limit_data, streak>>

jwtvars == <<jwt_config, jwt_secret, keyring, next_key, blacklist, blacklist_file,
             next_jti, issued, revoked>>

smvars == <<sm_config, sessions, secure_sessions, sm_key, next_sid>>

auvars == <<audit_config, events, audit_logs, next_event>>

umvars == <<users, current_user, current_session, um_sessions, password_history, threads,
            auvars, rl_lock>>

vars == <<now, config, login_attempts, failed_attempts, lockouts, rate_limit_data,
          streak, jwt_config, jwt_secret, keyring, next_key, blacklist,
          blacklist_file, next_jti, issued, revoked, sm_config, sessions,
          secure_sessions, sm_key, next_sid, users, current_user, current_session,
          um_sessions, password_history, threads, audit_config, events, audit_logs, next_event,
          rl_lock, last>>

----------------------------------------------------------------------------
(* Bounds of the model *)

TicksPerSecond == 2

MaxNowRL == 360

MaxAttempts == 3

MaxFailed == 4

MaxNowJWT == 120

MaxTokens == 4

MaxKeys == 2

----------------------------------------------------------------------------
(* Python dict helpers *)

EmptyDict == [k \in {} |-> 0]

Get(d, k, default) == IF k \in DOMAIN d THEN d[k] ELSE default

Put(d, k, v) == [x \in DOMAIN d \cup {k} |-> IF x = k THEN v ELSE d[x]]

Del(d, k) == [x \in DOMAIN d \ {k} |-> d[x]]

Min(a, b) == IF a <= b THEN a ELSE b

RECURSIVE Pow2(_)
Pow2(n) == IF n <= 0 THEN 1 ELSE 2 * Pow2(n - 1)

\* int(x) of a non-negative float number of seconds held in ticks
IntSeconds(ticks) == ticks \div TicksPerSecond

\* n seconds, in ticks
Seconds(n) == n * TicksPerSecond

None == "None"

----------------------------------------------------------------------------
(* Components a specification does not exercise stay as constructed *)

JWTUnused ==
    /\ jwt_config = [access_token_expire_minutes |-> 240, refresh_token_expire_days |-> 30,
                     issuer |-> "Oneverter"]
    /\ jwt_secret = 1
    /\ keyring = 1
    /\ next_key = 2
    /\ blacklist = {}
    /\ blacklist_file = EmptyDict
    /\ next_jti = 1
    /\ issued = {}
    /\ revoked = {}

SMUnused ==
    /\ sm_config = [default_session_timeout_minutes |-> 240, remember_me_days |-> 30,
                    max_sessions_per_user |-> 5]
    /\ sessions = EmptyDict
    /\ secure_sessions = EmptyDict
    /\ sm_key = 1
    /\ next_sid = 1

AuditUnused ==
    /\ audit_config = EmptyDict
    /\ events = <<>>
    /\ audit_logs = <<>>
    /\ next_event = 1

\* no thread holds the lock
NoThread == 0

UMUnused ==
    /\ AuditUnused
    /\ rl_lock = NoThread
    /\ users = EmptyDict
    /\ current_user = None
    /\ current_session = EmptyDict
    /\ um_sessions = EmptyDict
    /\ password_history = EmptyDict
    /\ threads = EmptyDict

----------------------------------------------------------------------------
(* RateLimiter *)

RLEmails == {"a@b.com"}

\* RateLimiter(login_attempts_per_window=3, login_window_minutes=1,
\*             lockout_duration_minutes=1) of the test suite, and the same
\* limiter with a threshold of 2
RLConfigs ==
    { [login_attempts_per_window |-> 3, login_window_minutes |-> 1,
       lockout_duration_minutes |-> 1, max_lockout_duration_hours |-> 24],
      [login_attempts_per_window |-> 2, login_window_minutes |-> 1,
       lockout_duration_minutes |-> 1, max_lockout_duration_hours |-> 24] }

\* while attempts and attempts[0] < cutoff: attempts.popleft()
RECURSIVE PopOld(_, _)
PopOld(attempts, cutoff) ==
    IF attempts # << >> /\ Head(attempts) < cutoff
    THEN PopOld(Tail(attempts), cutoff)
    ELSE attempts

WindowTicks == Seconds(config.login_window_minutes * 60)

\* an exponential backoff with no cap
LockoutMinutes_NoCap(failed_count) ==
    config.lockout_duration_minutes
        * Pow2(failed_count - config.login_attempts_per_window)

\* lockout_minutes of record_login_attempt
LockoutMinutes(failed_count) ==
    Min(config.lockout_duration_minutes
            * Pow2(failed_count - config.login_attempts_per_window),
        config.max_lockout_duration_hours * 60)

\* _save_persistent_data: json.dump of the two dicts (string keys, float
\* values: the JSON text reads back as the same dicts)
SavedData(lk, fa) == [lockouts |-> lk, failed_attempts |-> fa]

\* "if user_email in self.lockouts" and the lockout has not passed
IsLocked(lk, e, t) == e \in DOMAIN lk /\ t < lk[e]

\* "if user_email in self.lockouts" and the lockout has passed
IsExpired(lk, e, t) == e \in DOMAIN lk /\ ~(t < lk[e])

\* lockouts / failed_attempts after the expired-lockout branch
DropExpiredLockouts(lk, e, t) == IF IsExpired(lk, e, t) THEN Del(lk, e) ELSE lk

\* an expiry that leaves the failure counter as it was
ResetExpiredFailed_Kept(lk, fa, e, t) == fa

ResetExpiredFailed(lk, fa, e, t) == IF IsExpired(lk, e, t) THEN Put(fa, e, 0) ELSE fa

\* the tuple check_login_rate_limit returns in a state
CheckResult(lk, la, e, t) ==
    IF IsLocked(lk, e, t)
    THEN [allowed |-> FALSE, reason |-> "Account temporarily locked due to too many failed attempts",
          retry_after |-> IntSeconds(lk[e] - t)]
    ELSE LET user_attempts == PopOld(la[e], t - WindowTicks)
         IN  IF Len(user_attempts) >= config.login_attempts_per_window
             THEN [allowed |-> FALSE, reason |-> "Too many login attempts",
                   retry_after |-> IntSeconds(WindowTicks - (t - user_attempts[1]))]
             ELSE [allowed |-> TRUE, reason |-> None, retry_after |-> None]

\* the limiter's state as one value, so that a caller's handler can run
\* several limiter calls in sequence
RLState == [login_attempts |-> login_attempts, failed_attempts |-> failed_attempts,
            lockouts |-> lockouts, rate_limit_data |-> rate_limit_data]

SetRLState(rs) ==
    /\ login_attempts' = rs.login_attempts
    /\ failed_attempts' = rs.failed_attempts
    /\ lockouts' = rs.lockouts
    /\ rate_limit_data' = rs.rate_limit_data

\* the limiter after check_login_rate_limit(e) at time t
AfterCheck(rs, e, t) ==
    IF IsLocked(rs.lockouts, e, t)
    THEN rs
    ELSE [rs EXCEPT !.lockouts = DropExpiredLockouts(rs.lockouts, e, t),
                    !.failed_attempts = ResetExpiredFailed(rs.lockouts, rs.failed_attempts, e, t),
                    !.login_attempts[e] = PopOld(@, t - WindowTicks)]

check_login_rate_limit(e) ==
    /\ last' = [op |-> "check_login_rate_limit", email |-> e,
                ret |-> CheckResult(lockouts, login_attempts, e, now)]
    /\ SetRLState(AfterCheck(RLState, e, now))
    /\ UNCHANGED <<now, config, streak>>
    /\ UNCHANGED <<jwtvars, smvars, umvars>>

\* lockouts after a failed attempt that brought the counter to failed_count
LockOnFailure(lk, e, failed_count, t) ==
    IF failed_count >= config.login_attempts_per_window
    THEN Put(lk, e, t + Seconds(LockoutMinutes(failed_count) * 60))
    ELSE lk

\* a success that leaves the failure counter as it was
ResetOnSuccess_Kept(fa, e) == fa

\* failed_attempts / lockouts after the "if success" branch
ResetOnSuccess(fa, e) == IF e \in DOMAIN fa THEN Put(fa, e, 0) ELSE fa

UnlockOnSuccess(lk, e) == IF e \in DOMAIN lk THEN Del(lk, e) ELSE lk

\* a recording that puts only the failures into the window
AfterRecord_FailuresOnly(rs, e, success, t) ==
    LET failed_count == Get(rs.failed_attempts, e, 0) + 1
        fa == IF success THEN ResetOnSuccess(rs.failed_attempts, e)
                         ELSE Put(rs.failed_attempts, e, failed_count)
        lk == IF success THEN UnlockOnSuccess(rs.lockouts, e)
                         ELSE LockOnFailure(rs.lockouts, e, failed_count, t)
    IN  [login_attempts |-> IF success THEN rs.login_attempts
                            ELSE [rs.login_attempts EXCEPT ![e] = Append(@, t)],
         failed_attempts |-> fa,
         lockouts |-> lk,
         rate_limit_data |-> SavedData(lk, fa)]

\* the limiter after record_login_attempt(e, success) at time t
AfterRecord(rs, e, success, t) ==
    LET failed_count == Get(rs.failed_attempts, e, 0) + 1
        fa == IF success THEN ResetOnSuccess(rs.failed_attempts, e)
                         ELSE Put(rs.failed_attempts, e, failed_count)
        lk == IF success THEN UnlockOnSuccess(rs.lockouts, e)
                         ELSE LockOnFailure(rs.lockouts, e, failed_count, t)
    IN  [login_attempts |-> [rs.login_attempts EXCEPT ![e] = Append(@, t)],
         failed_attempts |-> fa,
         lockouts |-> lk,
         rate_limit_data |-> SavedData(lk, fa)]

\* history of the failures recorded since the last success
StreakAfter(e, success) ==
    [streak EXCEPT ![e] = IF success THEN 0 ELSE Min(@ + 1, MaxFailed + 1)]

record_login_attempt(e, success) ==
    /\ Len(login_attempts[e]) < MaxAttempts
    /\ Get(failed_attempts, e, 0) < MaxFailed
    /\ SetRLState(AfterRecord(RLState, e, success, now))
    /\ streak' = StreakAfter(e, success)
    /\ last' = [op |-> "record_login_attempt", email |-> e, success |-> success,
                was_locked |-> IsLocked(lockouts, e, now),
                was_failed |-> Get(failed_attempts, e, 0)]
    /\ UNCHANGED <<now, config>>
    /\ UNCHANGED <<jwtvars, smvars, umvars>>

\* the tuple is_user_locked_out returns in a state
LockedOutResult(lk, e, t) ==
    IF IsLocked(lk, e, t)
    THEN [locked |-> TRUE, unlock_in |-> IntSeconds(lk[e] - t)]
    ELSE [locked |-> FALSE, unlock_in |-> None]

is_user_locked_out(e) ==
    /\ last' = [op |-> "is_user_locked_out", email |-> e,
                ret |-> LockedOutResult(lockouts, e, now)]
    /\ lockouts' = DropExpiredLockouts(lockouts, e, now)
    /\ failed_attempts' = ResetExpiredFailed(lockouts, failed_attempts, e, now)
    /\ rate_limit_data' = IF IsExpired(lockouts, e, now)
                          THEN SavedData(lockouts', failed_attempts')
                          ELSE rate_limit_data
    /\ UNCHANGED <<now, config, login_attempts, streak>>
    /\ UNCHANGED <<jwtvars, smvars, umvars>>

unlock_user(e) ==
    /\ last' = [op |-> "unlock_user", email |-> e, ret |-> (e \in DOMAIN lockouts)]
    /\ IF e \in DOMAIN lockouts
       THEN /\ lockouts' = Del(lockouts, e)
            /\ failed_attempts' = Put(failed_attempts, e, 0)
            /\ rate_limit_data' = SavedData(lockouts', failed_attempts')
       ELSE UNCHANGED <<lockouts, failed_attempts, rate_limit_data>>
    /\ UNCHANGED <<now, config, login_attempts, streak>>
    /\ UNCHANGED <<jwtvars, smvars, umvars>>

ExpiredLockouts(lk, t) == {e \in DOMAIN lk : lk[e] <= t}

\* failed_attempts after the sweep dropped the lockouts of `expired`
SweepFailed(fa, expired) ==
    [e \in DOMAIN fa |-> IF e \in expired THEN 0 ELSE fa[e]]

\* the body of the background cleanup thread, every 300 s
_cleanup_expired_entries ==
    LET expired == ExpiredLockouts(lockouts, now)
    IN  /\ lockouts' = [e \in DOMAIN lockouts \ expired |-> lockouts[e]]
        /\ failed_attempts' = SweepFailed(failed_attempts, expired)
        /\ login_attempts' = [e \in DOMAIN login_attempts |->
                                 PopOld(login_attempts[e], now - WindowTicks)]
        /\ rate_limit_data' = IF expired # {}
                              THEN SavedData(lockouts', failed_attempts')
                              ELSE rate_limit_data
        /\ last' = [op |-> "_cleanup_expired_entries"]
        /\ UNCHANGED <<now, config, streak>>
        /\ UNCHANGED <<jwtvars, smvars, umvars>>

\* lockouts loaded by _load_persistent_data
LoadLockouts(data, t) ==
    [e \in {x \in DOMAIN data.lockouts : data.lockouts[x] > t} |-> data.lockouts[e]]

\* failed_attempts loaded by _load_persistent_data
LoadFailed(data, t) == data.failed_attempts

\* the process restarts: a new RateLimiter is constructed over the same file
RestartRateLimiter ==
    /\ lockouts' = LoadLockouts(rate_limit_data, now)
    /\ failed_attempts' = LoadFailed(rate_limit_data, now)
    /\ login_attempts' = [e \in DOMAIN login_attempts |-> << >>]
    /\ last' = [op |-> "RateLimiter.__init__"]
    /\ UNCHANGED <<now, config, rate_limit_data, streak>>
    /\ UNCHANGED <<jwtvars, smvars, umvars>>

\* the clock advances by one minute, or by half a second less
RLDeltas == {Seconds(60) - 1, Seconds(60)}

TickRL ==
    /\ \E d \in RLDeltas : now + d <= MaxNowRL /\ now' = now + d
    /\ last' = [op |-> "tick"]
    /\ UNCHANGED <<rlvars, smvars, umvars>>
    /\ UNCHANGED <<jwtvars, smvars, umvars>>

\* the state of a RateLimiter constructed with no rate_limit_data.json
InitRateLimiter(emails) ==
    /\ login_attempts = [e \in emails |-> << >>]
    /\ failed_attempts = EmptyDict
    /\ lockouts = EmptyDict
    /\ rate_limit_data = SavedData(EmptyDict, EmptyDict)
    /\ streak = [e \in emails |-> 0]

InitRL ==
    /\ now = 0
    /\ config \in RLConfigs
    /\ InitRateLimiter(RLEmails)
    /\ JWTUnused
    /\ SMUnused
    /\ UMUnused
    /\ last = [op |-> "init"]

NextRL ==
    \/ TickRL
    \/ \E e \in RLEmails : check_login_rate_limit(e)
    \/ \E e \in RLEmails, success \in BOOLEAN : record_login_attempt(e, success)
    \/ \E e \in RLEmails : is_user_locked_out(e)
    \/ \E e \in RLEmails : unlock_user(e)
    \/ _cleanup_expired_entries
    \/ RestartRateLimiter

SpecRL == InitRL /\ [][NextRL]_vars

----------------------------------------------------------------------------
(* JWTManager *)

\* a dict-or-None result that is None; "if not payload" treats it like {}
Nil == EmptyDict

\* keyring.get_password returned None
NoKey == 0

JWTUsers == {[email |-> "a@b.com", name |-> "Alice"],
             [email |-> "c@d.com", name |-> "Carol"]}

\* JWTManager(access_token_expire_minutes=1, refresh_token_expire_days=1)
\* of the test suite
JWTTestConfig == [access_token_expire_minutes |-> 1, refresh_token_expire_days |-> 1,
                  issuer |-> "Oneverter"]

\* email.split("@")[0]
LocalPart(email) ==
    CASE email = "a@b.com" -> "a"
      [] email = "c@d.com" -> "c"
      [] OTHER -> email

\* PyJWT writes a datetime claim as whole seconds (timegm of the time tuple)
TruncSeconds(t) == (t \div TicksPerSecond) * TicksPerSecond

\* jwt.encode(payload, key, algorithm="HS256")
Encode(payload, key) ==
    [payload |-> [payload EXCEPT !.iat = TruncSeconds(@), !.exp = TruncSeconds(@)],
     sig |-> key]

\* jwt.decode(token, key, algorithms, issuer=..., options={"verify_exp": ...}):
\* the signature, then the expiry, then the issuer
Decode(token, key, issuer, verify_exp, t) ==
    IF token.sig # key
    THEN [ok |-> FALSE, error |-> "InvalidSignatureError"]
    ELSE IF verify_exp /\ token.payload.exp <= t
    THEN [ok |-> FALSE, error |-> "ExpiredSignatureError"]
    ELSE IF issuer # "" /\ Get(token.payload, "iss", "") # issuer
    THEN [ok |-> FALSE, error |-> "InvalidIssuerError"]
    ELSE [ok |-> TRUE, payload |-> token.payload]

create_access_token(user_data, t, jti) ==
    Encode([sub |-> Get(user_data, "email", "None"),
            name |-> Get(user_data, "name", "None"),
            iat |-> t,
            exp |-> t + Seconds(jwt_config.access_token_expire_minutes * 60),
            iss |-> jwt_config.issuer,
            type |-> "access",
            jti |-> jti],
           jwt_secret)

\* a refresh token made for another subject than the one asked for
create_refresh_token_Other(user_email, t, jti) ==
    Encode([sub |-> "", iat |-> t,
            exp |-> t + Seconds(jwt_config.refresh_token_expire_days * 86400),
            iss |-> jwt_config.issuer, type |-> "refresh", jti |-> jti],
           jwt_secret)

create_refresh_token(user_email, t, jti) ==
    Encode([sub |-> user_email,
            iat |-> t,
            exp |-> t + Seconds(jwt_config.refresh_token_expire_days * 86400),
            iss |-> jwt_config.issuer,
            type |-> "refresh",
            jti |-> jti],
           jwt_secret)

\* create_token_pair, drawing the two fresh jti from jti and jti + 1
TokenPair(user_data, t, jti) ==
    <<create_access_token(user_data, t, jti),
      create_refresh_token(Get(user_data, "email", "None"), t, jti + 1)>>

\* a verification that does not look at the token type
VerifyToken_AnyType(bl, token, token_type, t) ==
    LET d == Decode(token, jwt_secret, jwt_config.issuer, TRUE, t)
    IN  IF ~d.ok THEN Nil
        ELSE IF Get(d.payload, "jti", 0) # 0 /\ d.payload.jti \in bl THEN Nil
        ELSE d.payload

\* verify_token(token, token_type) against the blacklist bl at time t
VerifyToken(bl, token, token_type, t) ==
    LET d == Decode(token, jwt_secret, jwt_config.issuer, TRUE, t)
    IN  IF ~d.ok THEN Nil
        ELSE IF Get(d.payload, "type", "None") # token_type THEN Nil
        ELSE IF Get(d.payload, "jti", 0) # 0 /\ d.payload.jti \in bl THEN Nil
        ELSE d.payload

\* a refresh that hands out the id of the refresh token again
RefreshedToken_SameId(bl, refresh_token, t, jti) ==
    LET payload == VerifyToken(bl, refresh_token, "refresh", t)
    IN  IF payload = Nil THEN Nil
        ELSE create_access_token(
                 [email |-> payload.sub,
                  name |-> Get(payload, "name", LocalPart(payload.sub))], t, payload.jti)

\* the access token refresh_access_token mints, or Nil
RefreshedToken(bl, refresh_token, t, jti) ==
    LET payload == VerifyToken(bl, refresh_token, "refresh", t)
    IN  IF payload = Nil THEN Nil
        ELSE create_access_token(
                 [email |-> payload.sub,
                  name |-> Get(payload, "name", LocalPart(payload.sub))], t, jti)

\* a blacklist_token that forgets the token
BlacklistAfter_Forgot(bl, token) == bl

\* the blacklist after blacklist_token(token)
BlacklistAfter(bl, token) ==
    LET d == Decode(token, jwt_secret, "", FALSE, 0)
    IN  IF d.ok /\ Get(d.payload, "jti", 0) # 0 THEN bl \cup {d.payload.jti} ELSE bl

\* _save_blacklist: the list of jti, encrypted with the manager's Fernet key
SavedBlacklist(bl) == [key |-> jwt_secret, data |-> bl]

\* the file after blacklist_token(token): saved only when a jti was added
BlacklistFileAfter(bl, file, token) ==
    LET d == Decode(token, jwt_secret, "", FALSE, 0)
    IN  IF d.ok /\ Get(d.payload, "jti", 0) # 0
        THEN SavedBlacklist(BlacklistAfter(bl, token))
        ELSE file

\* _load_blacklist with the Fernet key `key`: no file, or a file that does
\* not decrypt, gives the empty set
LoadBlacklist(file, key) ==
    IF file = EmptyDict THEN {}
    ELSE IF file.key # key THEN {}
    ELSE file.data

\* tokens this manager did not make: one signed with a key it never had, one
\* signed with its key by a JWTManager constructed with another issuer
ForgedToken ==
    [payload |-> [sub |-> "a@b.com", name |-> "Alice", iat |-> 0, exp |-> Seconds(10 * 86400),
                  iss |-> jwt_config.issuer, type |-> "access", jti |-> MaxTokens + 10],
     sig |-> MaxKeys + 10]

OtherIssuerToken ==
    [payload |-> [sub |-> "a@b.com", name |-> "Alice", iat |-> 0, exp |-> Seconds(10 * 86400),
                  iss |-> "Other", type |-> "access", jti |-> MaxTokens + 11],
     sig |-> jwt_secret]

IssuedTokens == {m.token : m \in issued}

Presentable == IssuedTokens \cup {ForgedToken, OtherIssuerToken}

create_token_pair(user_data) ==
    /\ next_jti + 1 <= MaxTokens
    /\ LET pair == TokenPair(user_data, now, next_jti)
       IN  /\ issued' = issued \cup
                  {[token |-> pair[1], user |-> user_data, by |-> "create_token_pair", role |-> "access"],
                   [token |-> pair[2], user |-> user_data, by |-> "create_token_pair", role |-> "refresh"]}
           /\ last' = [op |-> "create_token_pair", user |-> user_data, ret |-> pair]
    /\ next_jti' = next_jti + 2
    /\ UNCHANGED <<now, jwt_config, jwt_secret, keyring, next_key, blacklist, blacklist_file, revoked>>
    /\ UNCHANGED <<rlvars, smvars, umvars>>

verify_token(token, token_type) ==
    /\ last' = [op |-> "verify_token", type |-> token_type,
                valid |-> VerifyToken(blacklist, token, token_type, now) # Nil]
    /\ UNCHANGED <<now, jwtvars>>
    /\ UNCHANGED <<rlvars, smvars, umvars>>

refresh_access_token(refresh_token) ==
    LET new == RefreshedToken(blacklist, refresh_token, now, next_jti)
    IN  /\ new # Nil => next_jti <= MaxTokens
        /\ last' = [op |-> "refresh_access_token", token |-> refresh_token]
        /\ IF new = Nil
           THEN UNCHANGED <<issued, next_jti>>
           ELSE /\ issued' = issued \cup
                       {[token |-> new,
                         user |-> (CHOOSE m \in issued : m.token = refresh_token).user,
                         by |-> "refresh_access_token", role |-> "access"]}
                /\ next_jti' = next_jti + 1
        /\ UNCHANGED <<now, jwt_config, jwt_secret, keyring, next_key, blacklist, blacklist_file, revoked>>
        /\ UNCHANGED <<rlvars, smvars, umvars>>

blacklist_token(token) ==
    /\ blacklist' = BlacklistAfter(blacklist, token)
    /\ blacklist_file' = BlacklistFileAfter(blacklist, blacklist_file, token)
    /\ revoked' = IF token.sig = jwt_secret THEN revoked \cup {token} ELSE revoked
    /\ last' = [op |-> "blacklist_token", token |-> token]
    /\ UNCHANGED <<now, jwt_config, jwt_secret, keyring, next_key, next_jti, issued>>
    /\ UNCHANGED <<rlvars, smvars, umvars>>

\* _init_keys when the keyring works: the stored keys, or new ones stored
KeyringSecret == IF keyring = NoKey THEN next_key ELSE keyring

\* the process restarts: a new JWTManager is constructed.  keyring_ok is
\* whether the keyring calls of _init_keys succeed; when they raise, the
\* manager runs on temporary keys
RestartJWTManager(keyring_ok) ==
    /\ (keyring_ok /\ keyring # NoKey) \/ next_key <= MaxKeys
    /\ IF keyring_ok
       THEN /\ jwt_secret' = KeyringSecret
            /\ keyring' = KeyringSecret
            /\ next_key' = IF keyring = NoKey THEN next_key + 1 ELSE next_key
       ELSE /\ jwt_secret' = next_key
            /\ next_key' = next_key + 1
            /\ UNCHANGED keyring
    /\ blacklist' = LoadBlacklist(blacklist_file, jwt_secret')
    /\ last' = [op |-> "JWTManager.__init__", keyring_ok |-> keyring_ok]
    /\ UNCHANGED <<now, jwt_config, blacklist_file, next_jti, issued, revoked>>
    /\ UNCHANGED <<rlvars, smvars, umvars>>

\* the clock advances by a minute, by half a second less, or by a day
JWTDeltas == {Seconds(60) - 1, Seconds(60), Seconds(86400)}

TickJWT ==
    /\ \E d \in JWTDeltas :
          /\ now <= MaxNowJWT
          /\ d < Seconds(86400) => now + d <= MaxNowJWT
          /\ now' = now + d
    /\ last' = [op |-> "tick"]
    /\ UNCHANGED <<jwtvars, smvars, umvars>>
    /\ UNCHANGED <<rlvars, smvars, umvars>>

RLUnused ==
    /\ config = [login_attempts_per_window |-> 5, login_window_minutes |-> 15,
                 lockout_duration_minutes |-> 30, max_lockout_duration_hours |-> 24]
    /\ InitRateLimiter({})

\* a JWTManager constructed on a machine without token_blacklist.json and
\* with a working keyring: the keys are generated and stored
InitJWTManager(cfg) ==
    /\ jwt_config = cfg
    /\ jwt_secret = 1
    /\ keyring = 1
    /\ next_key = 2
    /\ blacklist = {}
    /\ blacklist_file = EmptyDict
    /\ next_jti = 1
    /\ issued = {}
    /\ revoked = {}

InitJWT ==
    /\ now = 0
    /\ InitJWTManager(JWTTestConfig)
    /\ RLUnused
    /\ SMUnused
    /\ UMUnused
    /\ last = [op |-> "init"]

NextJWT ==
    \/ TickJWT
    \/ \E u \in JWTUsers : create_token_pair(u)
    \/ \E token \in Presentable, token_type \in {"access", "refresh"} :
           verify_token(token, token_type)
    \/ \E token \in Presentable : refresh_access_token(token)
    \/ \E token \in Presentable : blacklist_token(token)
    \/ RestartJWTManager(TRUE)

SpecJWT == InitJWT /\ [][NextJWT]_vars

----------------------------------------------------------------------------
(* SecureSessionManager *)

MaxSessions == 3

MaxNowSM == 1

MaxStorageKeys == 3

MaxRefreshes == 1

SMUsers == JWTUsers

\* SecureSessionManager(default_session_timeout_minutes=1, remember_me_days=1,
\*                      max_sessions_per_user=2) of the test suite
SMTestConfig == [default_session_timeout_minutes |-> 1, remember_me_days |-> 1,
                 max_sessions_per_user |-> 2]

\* the manager of the test suite, and the same manager with a cap of 1
SMConfigs == {SMTestConfig, [SMTestConfig EXCEPT !.max_sessions_per_user = 1]}

\* the JWTManager the session manager constructs for itself
SMJWTConfig(cfg) ==
    [access_token_expire_minutes |-> cfg.default_session_timeout_minutes,
     refresh_token_expire_days |-> cfg.remember_me_days,
     issuer |-> "Oneverter"]

M == sm_config.max_sessions_per_user

\* a session_id argument that is None
NoSid == 0

\* datetime.isoformat() of a UTC time: "YYYY-MM-DDTHH:MM:SS+00:00", with
\* ".ffffff" after the seconds only when the microseconds are not 0
IsoFormat(t) ==
    [sec |-> t \div TicksPerSecond,
     frac |-> IF t % TicksPerSecond = 0 THEN "" ELSE ".500000"]

\* datetime.fromisoformat(s)
FromIsoFormat(s) == s.sec * TicksPerSecond + (IF s.frac = "" THEN 0 ELSE 1)

\* a < b on two isoformat strings: the fixed-width date and time first; where
\* these are equal, "+00:00" sorts before ".500000+00:00" ("+" < ".")
IsoStringLess(a, b) ==
    \/ a.sec < b.sec
    \/ a.sec = b.sec /\ a.frac = "" /\ b.frac # ""

\* the keys of a dict in iteration order: session ids are inserted in the
\* order they are drawn, and re-assigning a key keeps its position
RECURSIVE DictOrder(_)
DictOrder(keys) ==
    IF keys = {} THEN << >>
    ELSE LET k == CHOOSE x \in keys : \A y \in keys : x <= y
         IN  <<k>> \o DictOrder(keys \ {k})

\* SecureStorage.save: the dict encrypted with the instance's Fernet key
SavedSessions(ss) == [key |-> sm_key, data |-> ss]

\* SecureStorage.load with the Fernet key `key`: {} when there is no file and
\* when decrypt_dict raises
LoadStorage(file, key) ==
    IF file = EmptyDict THEN EmptyDict
    ELSE IF file.key # key THEN EmptyDict
    ELSE file.data

\* the session table, its file and the blacklist of the manager's JWTManager
\* as one value, so that a handler can run several calls in sequence
SMState == [sessions |-> sessions, secure_sessions |-> secure_sessions,
            blacklist |-> blacklist, blacklist_file |-> blacklist_file]

SetSMState(st) ==
    /\ sessions' = st.sessions
    /\ secure_sessions' = st.secure_sessions
    /\ blacklist' = st.blacklist
    /\ blacklist_file' = st.blacklist_file

_save_sessions(st) == [st EXCEPT !.secure_sessions = SavedSessions(st.sessions)]

\* the manager after _invalidate_session(session_id, reason) at time t.  The
\* fields of a session that are written and never read (ip_address, user_agent,
\* device_info, invalidated_at, invalidation_reason) are not kept
_invalidate_session(st, session_id, reason, t) ==
    IF session_id \notin DOMAIN st.sessions
    THEN st
    ELSE LET session_data == st.sessions[session_id]
             access_token == session_data.access_token
             marked == Put(session_data, "is_active", FALSE)
         IN  _save_sessions(
                 [st EXCEPT !.blacklist = BlacklistAfter(st.blacklist, access_token),
                            !.blacklist_file = BlacklistFileAfter(st.blacklist,
                                                   st.blacklist_file, access_token),
                            !.sessions = Put(st.sessions, session_id, marked)])

\* _invalidate_session for each session id of a list, in order
RECURSIVE InvalidateEach(_, _, _, _)
InvalidateEach(st, ids, reason, t) ==
    IF ids = << >> THEN st
    ELSE InvalidateEach(_invalidate_session(st, Head(ids), reason, t), Tail(ids), reason, t)

\* the record get_user_sessions returns for a session
safe_session(session_data) ==
    [session_id |-> session_data.session_id,
     created_at |-> session_data.created_at,
     last_activity |-> session_data.last_activity,
     expires_at |-> session_data.expires_at,
     remember_me |-> session_data.remember_me,
     is_active |-> session_data.is_active]

\* list.sort(key=last_activity, reverse=True): stable, equal keys keep their order
InsertDesc(sorted, x) ==
    LET before == {i \in 1..Len(sorted) :
                      IsoStringLess(sorted[i].last_activity, x.last_activity)}
        p == IF before = {} THEN Len(sorted) + 1
             ELSE CHOOSE i \in before : \A j \in before : i <= j
    IN  SubSeq(sorted, 1, p - 1) \o <<x>> \o SubSeq(sorted, p, Len(sorted))

RECURSIVE SortDesc(_)
SortDesc(s) ==
    IF s = << >> THEN << >>
    ELSE InsertDesc(SortDesc(SubSeq(s, 1, Len(s) - 1)), s[Len(s)])

\* an insertion that ignores the key: the list stays in the order given
InsertAsc_Append(sorted, x) == Append(sorted, x)

\* sorted(user_sessions, key=last_activity): stable, equal keys keep their order
InsertAsc(sorted, x) ==
    LET before == {i \in 1..Len(sorted) :
                      IsoStringLess(x.last_activity, sorted[i].last_activity)}
        p == IF before = {} THEN Len(sorted) + 1
             ELSE CHOOSE i \in before : \A j \in before : i <= j
    IN  SubSeq(sorted, 1, p - 1) \o <<x>> \o SubSeq(sorted, p, Len(sorted))

RECURSIVE SortAsc(_)
SortAsc(s) ==
    IF s = << >> THEN << >>
    ELSE InsertAsc(SortAsc(SubSeq(s, 1, Len(s) - 1)), s[Len(s)])

get_user_sessions(ss, user_email, active_only) ==
    LET Wanted(sid) == /\ ss[sid].user_email = user_email
                       /\ (~active_only \/ ss[sid].is_active)
        ids == SelectSeq(DictOrder(DOMAIN ss), Wanted)
    IN  SortDesc([i \in 1..Len(ids) |-> safe_session(ss[ids[i]])])

\* the session ids _enforce_session_limit invalidates, in order
SessionsToRemove(ss, user_email) ==
    LET user_sessions == get_user_sessions(ss, user_email, TRUE)
        sessions_to_remove == Len(user_sessions) - M + 1
        oldest_sessions == SortAsc(user_sessions)
    IN  IF Len(user_sessions) >= M
        THEN [i \in 1..sessions_to_remove |-> oldest_sessions[i].session_id]
        ELSE << >>

\* an enforcement that evicts nothing
_enforce_session_limit_Off(st, user_email, t) == st

\* the manager after _enforce_session_limit(user_email) at time t
_enforce_session_limit(st, user_email, t) ==
    InvalidateEach(st, SessionsToRemove(st.sessions, user_email),
                   "session_limit_exceeded", t)

\* the session record create_session stores
NewSession(session_id, user_data, remember_me, pair, t) ==
    [session_id |-> session_id,
     user_email |-> Get(user_data, "email", None),
     user_name |-> Get(user_data, "name", None),
     access_token |-> pair[1],
     refresh_token |-> pair[2],
     created_at |-> IsoFormat(t),
     expires_at |-> IsoFormat(
         IF remember_me
         THEN t + Seconds(sm_config.remember_me_days * 86400)
         ELSE t + Seconds(sm_config.default_session_timeout_minutes * 60)),
     last_activity |-> IsoFormat(t),
     remember_me |-> remember_me,
     is_active |-> TRUE]

\* the access tokens refresh_access_token has minted: every jti drawn that
\* was not one of the two of a create_session
RefreshesDone == (next_jti - 1) - 2 * (next_sid - 1)

\* `last` keeps the last create_session call and the sessions it evicted; the
\* other calls of the session manager leave it
create_session(user_data, remember_me) ==
    /\ next_sid <= MaxSessions
    /\ LET user_email == Get(user_data, "email", None)
           limited == _enforce_session_limit(SMState, user_email, now)
           pair == TokenPair(user_data, now, next_jti)
           session_data == NewSession(next_sid, user_data, remember_me, pair, now)
       IN  /\ SetSMState(_save_sessions(
                  [limited EXCEPT !.sessions = Put(limited.sessions, next_sid, session_data)]))
           /\ last' = [op |-> "create_session", user_email |-> user_email,
                       session_id |-> next_sid,
                       evicted |-> SessionsToRemove(sessions, user_email)]
    /\ next_sid' = next_sid + 1
    /\ next_jti' = next_jti + 2
    /\ UNCHANGED <<now, sm_config, sm_key, jwt_config, jwt_secret, keyring, next_key,
                   issued, revoked>>
    /\ UNCHANGED <<rlvars, umvars>>

\* the session validate_session looks at, or Nil
SessionFor(ss, session_id) ==
    IF session_id # NoSid THEN Get(ss, session_id, Nil) ELSE Nil

\* the token validate_session verifies
TokenFor(ss, session_id, access_token) ==
    IF SessionFor(ss, session_id) # Nil
    THEN SessionFor(ss, session_id).access_token
    ELSE access_token

\* the (is_valid, user_data) validate_session returns
ValidateResult(st, session_id, access_token, t) ==
    LET session_data == SessionFor(st.sessions, session_id)
        token == TokenFor(st.sessions, session_id, access_token)
        payload == IF token = Nil THEN Nil ELSE VerifyToken(st.blacklist, token, "access", t)
    IN  IF token = Nil \/ payload = Nil THEN [valid |-> FALSE, user_data |-> Nil]
        ELSE IF session_data # Nil /\ t > FromIsoFormat(session_data.expires_at)
        THEN [valid |-> FALSE, user_data |-> Nil]
        ELSE [valid |-> TRUE,
              user_data |-> [email |-> payload.sub, name |-> Get(payload, "name", None),
                             session_id |-> session_id]]

\* the manager after validate_session(session_id, access_token) at time t
AfterValidate(st, session_id, access_token, t) ==
    LET session_data == SessionFor(st.sessions, session_id)
        token == TokenFor(st.sessions, session_id, access_token)
        payload == IF token = Nil THEN Nil ELSE VerifyToken(st.blacklist, token, "access", t)
    IN  IF token = Nil THEN st
        ELSE IF payload = Nil
        THEN IF session_data # Nil
             THEN _invalidate_session(st, session_data.session_id, "token_expired", t)
             ELSE st
        ELSE IF session_data = Nil THEN st
        ELSE IF t > FromIsoFormat(session_data.expires_at)
        THEN _invalidate_session(st, session_data.session_id, "session_expired", t)
        ELSE _save_sessions(
                 [st EXCEPT !.sessions = Put(st.sessions, session_data.session_id,
                                             Put(session_data, "last_activity", IsoFormat(t)))])

validate_session(session_id, access_token) ==
    /\ SetSMState(AfterValidate(SMState, session_id, access_token, now))
    /\ UNCHANGED last
    /\ UNCHANGED <<now, sm_config, sm_key, next_sid, jwt_config, jwt_secret, keyring,
                   next_key, next_jti, issued, revoked>>
    /\ UNCHANGED <<rlvars, umvars>>

\* "for sid, data in self.sessions.items(): if data.get('refresh_token') ==
\* refresh_token": the first session in dict order, or NoSid
SessionWithRefreshToken(ss, refresh_token) ==
    LET found == {sid \in DOMAIN ss : ss[sid].refresh_token = refresh_token}
    IN  IF found = {} THEN NoSid ELSE CHOOSE sid \in found : \A x \in found : sid <= x

\* the session after refresh_session gave it a new access token
Refreshed(session_data, new_access_token, t) ==
    LET touched == Put(Put(session_data, "access_token", new_access_token),
                       "last_activity", IsoFormat(t))
    IN  IF session_data.remember_me
        THEN Put(touched, "expires_at",
                 IsoFormat(t + Seconds(sm_config.remember_me_days * 86400)))
        ELSE touched

refresh_session(refresh_token) ==
    LET new_access_token == RefreshedToken(blacklist, refresh_token, now, next_jti)
        sid == SessionWithRefreshToken(sessions, refresh_token)
    IN  /\ new_access_token # Nil => RefreshesDone < MaxRefreshes
        /\ next_jti' = IF new_access_token # Nil THEN next_jti + 1 ELSE next_jti
        /\ IF new_access_token # Nil /\ sid # NoSid
           THEN SetSMState(_save_sessions(
                    [SMState EXCEPT !.sessions = Put(sessions, sid,
                         Refreshed(sessions[sid], new_access_token, now))]))
           ELSE UNCHANGED <<sessions, secure_sessions, blacklist, blacklist_file>>
        /\ UNCHANGED last
        /\ UNCHANGED <<now, sm_config, sm_key, next_sid, jwt_config, jwt_secret, keyring,
                       next_key, issued, revoked>>
        /\ UNCHANGED <<rlvars, umvars>>

invalidate_session(session_id) ==
    /\ SetSMState(_invalidate_session(SMState, session_id, "user_logout", now))
    /\ UNCHANGED last
    /\ UNCHANGED <<now, sm_config, sm_key, next_sid, jwt_config, jwt_secret, keyring,
                   next_key, next_jti, issued, revoked>>
    /\ UNCHANGED <<rlvars, umvars>>

\* the sessions invalidate_all_user_sessions invalidates, in dict order
SessionsToInvalidate(ss, user_email, except_session_id) ==
    LET Hit(sid) == /\ ss[sid].user_email = user_email
                    /\ ss[sid].is_active
                    /\ sid # except_session_id
    IN  SelectSeq(DictOrder(DOMAIN ss), Hit)

invalidate_all_user_sessions(user_email, except_session_id) ==
    LET ids == SessionsToInvalidate(sessions, user_email, except_session_id)
    IN  /\ SetSMState(InvalidateEach(SMState, ids, "security_action", now))
        /\ UNCHANGED last
        /\ UNCHANGED <<now, sm_config, sm_key, next_sid, jwt_config, jwt_secret, keyring,
                       next_key, next_jti, issued, revoked>>
        /\ UNCHANGED <<rlvars, umvars>>

\* the sessions _cleanup_expired_sessions deletes
ExpiredSessions(ss, t) ==
    {sid \in DOMAIN ss : t > FromIsoFormat(ss[sid].expires_at) \/ ~ss[sid].is_active}

\* the session table after _cleanup_expired_sessions
_cleanup_expired_sessions(ss, t) ==
    [sid \in DOMAIN ss \ ExpiredSessions(ss, t) |-> ss[sid]]

\* the process restarts: a new SecureSessionManager is constructed, with a
\* JWTManager that finds its keys in the keyring and a SecureStorage whose
\* EncryptionManager generates a new Fernet key
RestartSessionManager ==
    /\ sm_key < MaxStorageKeys
    /\ sm_key' = sm_key + 1
    /\ jwt_secret' = KeyringSecret
    /\ keyring' = KeyringSecret
    /\ next_key' = IF keyring = NoKey THEN next_key + 1 ELSE next_key
    /\ blacklist' = LoadBlacklist(blacklist_file, jwt_secret')
    /\ LET loaded == LoadStorage(secure_sessions, sm_key')
       IN  /\ sessions' = _cleanup_expired_sessions(loaded, now)
           /\ secure_sessions' = IF ExpiredSessions(loaded, now) # {}
                                 THEN [key |-> sm_key', data |-> sessions']
                                 ELSE secure_sessions
    /\ last' = [op |-> "SecureSessionManager.__init__"]
    /\ UNCHANGED <<now, sm_config, next_sid, jwt_config, blacklist_file, next_jti,
                   issued, revoked>>
    /\ UNCHANGED <<rlvars, umvars>>

\* the clock advances by half a second, or by a minute
SMDeltas == {1, Seconds(60)}

TickSM ==
    /\ now < MaxNowSM
    /\ \E d \in SMDeltas : now' = now + d
    /\ UNCHANGED <<rlvars, jwtvars, smvars, umvars, last>>

\* the tokens and session ids a caller can hold
SMAccessTokens == {sessions[sid].access_token : sid \in DOMAIN sessions} \cup {ForgedToken}

SMRefreshTokens == {sessions[sid].refresh_token : sid \in DOMAIN sessions}

SMSessionIds == DOMAIN sessions \cup {MaxSessions + 10}

\* validate_session by session id and by access token (with both, the token
\* of the session replaces the one given)
SMValidateArgs ==
    {<<sid, Nil>> : sid \in SMSessionIds}
        \cup {<<NoSid, token>> : token \in SMAccessTokens \cup {Nil}}

InitSM ==
    /\ now = 0
    /\ sm_config \in SMConfigs
    /\ sessions = EmptyDict
    /\ secure_sessions = EmptyDict
    /\ sm_key = 1
    /\ next_sid = 1
    /\ InitJWTManager(SMJWTConfig(SMTestConfig))
    /\ RLUnused
    /\ UMUnused
    /\ last = [op |-> "init"]

NextSM ==
    \/ TickSM
    \/ \E u \in SMUsers, remember_me \in {FALSE} : create_session(u, remember_me)
    \/ \E args \in SMValidateArgs : validate_session(args[1], args[2])
    \/ \E token \in SMRefreshTokens \cup {ForgedToken} : refresh_session(token)
    \/ \E sid \in SMSessionIds : invalidate_session(sid)
    \/ \E u \in SMUsers, sid \in DOMAIN sessions \cup {NoSid} :
           invalidate_all_user_sessions(u.email, sid)

SpecSM == InitSM /\ [][NextSM]_vars

----------------------------------------------------------------------------
(* SecureUserManager *)

MaxNowUM == 3600

MaxLogins == 1

UMEmails == {"a@b.com"}

\* what the callers of signup and login type in
UMEmailInputs == {"a@b.com", "A@B.com", "not-an-email"}

UMSignupPasswords == {"Str0ng!Pass#1", "password"}

UMLoginPasswords == {"Str0ng!Pass#1", "wrong"}

UMNames == {"Alice"}

\* RateLimiter() and JWTManager() as SecureUserManager.__init__ constructs them
RLDefaultConfig ==
    [login_attempts_per_window |-> 5, login_window_minutes |-> 15,
     lockout_duration_minutes |-> 30, max_lockout_duration_hours |-> 24]

JWTDefaultConfig ==
    [access_token_expire_minutes |-> 240, refresh_token_expire_days |-> 30,
     issuer |-> "Oneverter"]

\* InputValidator.validate_email on the inputs above: the address as
\* email-validator normalizes it, in lower case
validate_email(email) ==
    IF email \in {"a@b.com", "A@B.com"}
    THEN [valid |-> TRUE, normalized |-> "a@b.com", error |-> None]
    ELSE IF email = "c@d.com"
    THEN [valid |-> TRUE, normalized |-> "c@d.com", error |-> None]
    ELSE [valid |-> FALSE, normalized |-> None,
          error |-> "The email address is not valid. It must have exactly one @-sign."]

\* InputValidator.validate_name on the names above
validate_name(name) == [valid |-> TRUE, sanitized |-> name, error |-> None]

\* what the checks of validate_password_strength see of a password
PasswordShape(password) ==
    CASE password \in {"Str0ng!Pass#1", "N3w!Pass#2"} ->
             [len |-> 13, upper |-> TRUE, lower |-> TRUE, digit |-> TRUE, special |-> TRUE,
              common |-> FALSE, sequential |-> FALSE, repeated |-> FALSE]
      [] password = "password" ->
             [len |-> 8, upper |-> FALSE, lower |-> TRUE, digit |-> FALSE, special |-> FALSE,
              common |-> TRUE, sequential |-> FALSE, repeated |-> FALSE]
      [] OTHER ->
             [len |-> 5, upper |-> FALSE, lower |-> TRUE, digit |-> FALSE, special |-> FALSE,
              common |-> FALSE, sequential |-> FALSE, repeated |-> FALSE]

\* one issue when the rule is broken
Issue(broken, text) == IF broken THEN <<text>> ELSE << >>

\* the list of issues of PasswordService.validate_password_strength
validate_password_strength(password) ==
    LET shape == PasswordShape(password)
    IN  Issue(shape.len < 8, "Password must be at least 8 characters long")
        \o Issue(shape.len > 128, "Password must be no more than 128 characters long")
        \o Issue(~shape.upper, "Password must contain at least one uppercase letter")
        \o Issue(~shape.lower, "Password must contain at least one lowercase letter")
        \o Issue(~shape.digit, "Password must contain at least one digit")
        \o Issue(~shape.special, "Password must contain at least one special character")
        \o Issue(shape.common, "Password is too common. Please choose a more unique password")
        \o Issue(shape.sequential, "Password should not contain sequential characters (e.g., 123, abc)")
        \o Issue(shape.repeated, "Password should not contain too many repeated characters")

\* bcrypt.hashpw with a fresh salt, and bcrypt.checkpw: a hash matches the
\* password it was made from and no other
hash_password(password) == [bcrypt |-> password]

verify_password(password, hashed_password) == hashed_password.bcrypt = password

check_password_history(history, user_email, new_password) ==
    \A i \in 1..Len(Get(history, user_email, << >>)) :
        ~verify_password(new_password, history[user_email][i])

\* a history that drops the newest hash when it is full
add_to_password_history_PopNewest(history, user_email, password_hash) ==
    LET user_history == Append(Get(history, user_email, << >>), password_hash)
    IN  Put(history, user_email,
            IF Len(user_history) > 5
            THEN SubSeq(user_history, 1, Len(user_history) - 1)
            ELSE user_history)

\* PasswordService.add_to_password_history with history_count = 5
add_to_password_history(history, user_email, password_hash) ==
    LET user_history == Append(Get(history, user_email, << >>), password_hash)
    IN  Put(history, user_email,
            IF Len(user_history) > 5 THEN Tail(user_history) ELSE user_history)

\* a validation of new passwords that leaves out the strength rules
validate_new_password_HistoryOnly(history, user_email, new_password) ==
    Issue(~check_password_history(history, user_email, new_password),
          "Password was used recently. Please choose a different password")

\* the list of issues of PasswordService.validate_new_password
validate_new_password(history, user_email, new_password) ==
    validate_password_strength(new_password)
        \o Issue(~check_password_history(history, user_email, new_password),
                 "Password was used recently. Please choose a different password")

\* the user record signup stores (profile.created_at is written and never
\* read, and is not kept)
NewUser(normalized_email, hashed_password, name, t) ==
    [email |-> normalized_email,
     password_hash |-> hashed_password,
     profile |-> [name |-> name, email_verified |-> FALSE,
                  last_login |-> Nil, login_count |-> 0],
     security |-> [password_changed_at |-> IsoFormat(t), failed_login_attempts |-> 0,
                   account_locked |-> FALSE, locked_until |-> Nil],
     preferences |-> [session_timeout_minutes |-> 240, remember_device |-> FALSE]]

\* a signup that does not look for an existing account
signup_NoDuplicateCheck(email, password, name) ==
    LET v == validate_email(email)
        normalized_email == v.normalized
        nm == IF name # None THEN validate_name(name).sanitized ELSE LocalPart(normalized_email)
        issues == validate_password_strength(password)
        Return(success, message, audit) ==
            last' = [op |-> "signup",
                     ret |-> [success |-> success, message |-> message], audit |-> audit]
    IN  /\ IF ~v.valid
           THEN /\ Return(FALSE, <<v.error>>, <<"SUSPICIOUS_ACTIVITY">>)
                /\ UNCHANGED <<users, password_history>>
           ELSE IF issues # << >>
           THEN /\ Return(FALSE, issues, << >>)
                /\ UNCHANGED <<users, password_history>>
           ELSE /\ password_history' = add_to_password_history(password_history,
                                           normalized_email, hash_password(password))
                /\ users' = Put(users, normalized_email,
                                NewUser(normalized_email, hash_password(password), nm, now))
                /\ Return(TRUE, <<"Account created successfully. You can now log in.">>,
                          <<"LOGIN_SUCCESS">>)
        /\ UNCHANGED <<now, current_user, current_session, um_sessions, threads, auvars, rl_lock>>
        /\ UNCHANGED <<rlvars, jwtvars, smvars>>

\* signup(email, password, name).  A message is the list of the parts that
\* "; ".join puts together.  user_storage.save(self.users) follows every change
\* of self.users, so the file users.enc always holds the value of `users`.
\* `last` records the call, what it returned and the audit events it logged
signup(email, password, name) ==
    LET v == validate_email(email)
        normalized_email == v.normalized
        nm == IF name # None THEN validate_name(name).sanitized ELSE LocalPart(normalized_email)
        issues == validate_new_password(password_history, normalized_email, password)
        Return(success, message, audit) ==
            last' = [op |-> "signup",
                     ret |-> [success |-> success, message |-> message], audit |-> audit]
    IN  /\ IF ~v.valid
           THEN /\ Return(FALSE, <<v.error>>, <<"SUSPICIOUS_ACTIVITY">>)
                /\ UNCHANGED <<users, password_history>>
           ELSE IF name # None /\ ~validate_name(name).valid
           THEN /\ Return(FALSE, <<validate_name(name).error>>, << >>)
                /\ UNCHANGED <<users, password_history>>
           ELSE IF normalized_email \in DOMAIN users
           THEN /\ Return(FALSE, <<"An account with this email already exists">>,
                          <<"SUSPICIOUS_ACTIVITY">>)
                /\ UNCHANGED <<users, password_history>>
           ELSE IF issues # << >>
           THEN /\ Return(FALSE, issues, << >>)
                /\ UNCHANGED <<users, password_history>>
           ELSE /\ password_history' = add_to_password_history(password_history,
                                           normalized_email, hash_password(password))
                /\ users' = Put(users, normalized_email,
                                NewUser(normalized_email, hash_password(password), nm, now))
                /\ Return(TRUE, <<"Account created successfully. You can now log in.">>,
                          <<"LOGIN_SUCCESS">>)
        /\ UNCHANGED <<now, current_user, current_session, um_sessions, threads, auvars, rl_lock>>
        /\ UNCHANGED <<rlvars, jwtvars, smvars>>

\* "if user_data['security']['account_locked'] and locked_until", before and
\* after locked_until
UserLocked(user_data, t) ==
    /\ user_data.security.account_locked
    /\ user_data.security.locked_until # Nil
    /\ t < FromIsoFormat(user_data.security.locked_until)

UserLockExpired(user_data, t) ==
    /\ user_data.security.account_locked
    /\ user_data.security.locked_until # Nil
    /\ ~(t < FromIsoFormat(user_data.security.locked_until))

\* the user record after "Unlock account if lock period expired"
Unlocked(user_data) ==
    [user_data EXCEPT !.security.account_locked = FALSE,
                      !.security.locked_until = Nil,
                      !.security.failed_login_attempts = 0]

\* the user record after a wrong password
AfterWrongPassword(user_data, t) ==
    LET failed == user_data.security.failed_login_attempts + 1
    IN  IF failed >= 5
        THEN [user_data EXCEPT
                 !.security.failed_login_attempts = failed,
                 !.security.account_locked = TRUE,
                 !.security.locked_until =
                     IsoFormat(t + Seconds(30 * Pow2(failed - 5) * 60))]
        ELSE [user_data EXCEPT !.security.failed_login_attempts = failed]

\* the user record after the right password
AfterRightPassword(user_data, t) ==
    [user_data EXCEPT !.security.failed_login_attempts = 0,
                      !.security.account_locked = FALSE,
                      !.security.locked_until = Nil,
                      !.profile.last_login = IsoFormat(t),
                      !.profile.login_count = @ + 1]

\* the session record login stores (created_at, last_activity, ip_address,
\* user_agent and remember_me are written and never read, and are not kept)
UMSession(normalized_email, pair, t) ==
    [user_email |-> normalized_email,
     access_token |-> pair[1],
     refresh_token |-> pair[2]]

\* a rate-limit stage that lets every attempt through
RateAllowed_Always(check) == TRUE

\* "if not rate_allowed: return False, rate_reason, None"
RateAllowed(check) == check.allowed

\* the history of tokens handed out, after a pair was made for a user
IssuedAfterPair(user_info, pair) ==
    issued \cup {[token |-> pair[1], user |-> user_info, by |-> "create_token_pair",
                  role |-> "access"],
                 [token |-> pair[2], user |-> user_info, by |-> "create_token_pair",
                  role |-> "refresh"]}

\* login(email, password) at time t: what it returns (the message without
\* the user's name), the audit events it logs, whether it recorded an attempt
\* with the limiter, and the state it leaves
LoginOutcome(email, password, t) ==
    LET v == validate_email(email)
        normalized_email == v.normalized
        check == CheckResult(lockouts, login_attempts, normalized_email, t)
        checked == AfterCheck(RLState, normalized_email, t)
        failed == AfterRecord(checked, normalized_email, FALSE, t)
        same == [ret |-> [success |-> FALSE, message |-> "Invalid email format", tokens |-> Nil],
                 audit |-> << >>, rate_limiter |-> RLState, recorded |-> None,
                 users |-> users,
                 um_sessions |-> um_sessions, current_user |-> current_user,
                 current_session |-> current_session, next_jti |-> next_jti,
                 next_sid |-> next_sid, issued |-> issued]
    IN  IF ~v.valid THEN same
        ELSE IF ~RateAllowed(check)
        THEN [same EXCEPT !.ret.message = check.reason,
                          !.audit = <<"RATE_LIMIT_EXCEEDED">>,
                          !.rate_limiter = checked]
        ELSE IF normalized_email \notin DOMAIN users
        THEN [same EXCEPT !.ret.message = "Invalid email or password",
                          !.audit = <<"LOGIN_FAILURE">>,
                          !.rate_limiter = failed,
                          !.recorded = "failure"]
        ELSE IF UserLocked(users[normalized_email], t)
        THEN [same EXCEPT !.ret.message = "Account is temporarily locked. Please try again later.",
                          !.audit = <<"PERMISSION_DENIED">>,
                          !.rate_limiter = checked]
        ELSE LET user_data == IF UserLockExpired(users[normalized_email], t)
                              THEN Unlocked(users[normalized_email])
                              ELSE users[normalized_email]
             IN  IF ~verify_password(password, user_data.password_hash)
                 THEN LET wrong == AfterWrongPassword(user_data, t)
                      IN  [same EXCEPT
                              !.ret.message = "Invalid email or password",
                              !.audit = IF wrong.security.account_locked
                                        THEN <<"ACCOUNT_LOCKED", "LOGIN_FAILURE">>
                                        ELSE <<"LOGIN_FAILURE">>,
                              !.rate_limiter = failed,
                              !.recorded = "failure",
                              !.users = Put(users, normalized_email, wrong)]
                 ELSE LET right == AfterRightPassword(user_data, t)
                          user_info == [email |-> normalized_email, name |-> right.profile.name]
                          pair == TokenPair(user_info, t, next_jti)
                          session_data == UMSession(normalized_email, pair, t)
                      IN  [ret |-> [success |-> TRUE, message |-> "Welcome",
                                    tokens |-> [access_token |-> pair[1],
                                                refresh_token |-> pair[2],
                                                session_id |-> next_sid]],
                           audit |-> <<"LOGIN_SUCCESS">>,
                           rate_limiter |-> AfterRecord(checked, normalized_email, TRUE, t),
                           recorded |-> "success",
                           users |-> Put(users, normalized_email, right),
                           um_sessions |-> Put(um_sessions, next_sid, session_data),
                           current_user |-> normalized_email,
                           current_session |-> session_data,
                           next_jti |-> next_jti + 2,
                           next_sid |-> next_sid + 1,
                           issued |-> IssuedAfterPair(user_info, pair)]

\* self.current_user is the profile dict of a user record, held here as the
\* email of that record; streak is the limiter's history of failures
login(email, password) ==
    LET out == LoginOutcome(email, password, now)
        normalized_email == validate_email(email).normalized
    IN  /\ out.ret.success => next_sid <= MaxLogins
        /\ SetRLState(out.rate_limiter)
        /\ streak' = IF out.recorded = None THEN streak
                     ELSE StreakAfter(normalized_email, out.recorded = "success")
        /\ users' = out.users
        /\ um_sessions' = out.um_sessions
        /\ current_user' = out.current_user
        /\ current_session' = out.current_session
        /\ next_jti' = out.next_jti
        /\ next_sid' = out.next_sid
        /\ issued' = out.issued
        /\ last' = [op |-> "login", normalized |-> normalized_email,
                    password |-> password, ret |-> out.ret, audit |-> out.audit]
        /\ UNCHANGED <<now, config, jwt_config, jwt_secret, keyring, next_key, blacklist,
                       blacklist_file, revoked>>
        /\ UNCHANGED <<sm_config, sessions, secure_sessions, sm_key, password_history, threads, auvars, rl_lock>>

\* the session login_with_session and logout find under a session id, or Nil
UMSessionFor(session_id) ==
    IF session_id # NoSid THEN Get(um_sessions, session_id, Nil) ELSE Nil

login_with_session(session_id, access_token) ==
    LET session_data == UMSessionFor(session_id)
        token == IF session_id # NoSid /\ session_data # Nil
                 THEN session_data.access_token ELSE access_token
        payload == IF token = Nil THEN Nil ELSE VerifyToken(blacklist, token, "access", now)
        restored == /\ (session_id # NoSid => session_data # Nil)
                    /\ payload # Nil
                    /\ payload.sub \in DOMAIN users
    IN  /\ IF restored
           THEN /\ current_user' = payload.sub
                /\ IF session_id # NoSid
                   THEN /\ um_sessions' = Put(um_sessions, session_id, session_data)
                        /\ current_session' = um_sessions'[session_id]
                   ELSE UNCHANGED <<um_sessions, current_session>>
           ELSE UNCHANGED <<current_user, current_session, um_sessions>>
        /\ last' = [op |-> "login_with_session", ret |-> restored, audit |-> << >>]
        /\ UNCHANGED <<now, users, password_history, threads, auvars, rl_lock>>
        /\ UNCHANGED <<rlvars, jwtvars, smvars>>

\* self.current_user.get('email'): the profile dict has no 'email' key
CurrentUserEmail == None

\* the user_email logout finds for its audit event
LogoutUserEmail(access_token) ==
    IF current_user # None THEN CurrentUserEmail
    ELSE IF access_token # Nil /\ VerifyToken(blacklist, access_token, "access", now) # Nil
    THEN VerifyToken(blacklist, access_token, "access", now).sub
    ELSE None

\* the access token of the session a logout call is about: the session under
\* the session id, else the session that holds the access token given
LogoutSessionToken(session_id, access_token) ==
    IF UMSessionFor(session_id) # Nil THEN UMSessionFor(session_id).access_token
    ELSE IF \E sid \in DOMAIN um_sessions : um_sessions[sid].access_token = access_token
    THEN access_token
    ELSE Nil

logout(session_id, access_token) ==
    /\ IF access_token # Nil
       THEN /\ blacklist' = BlacklistAfter(blacklist, access_token)
            /\ blacklist_file' = BlacklistFileAfter(blacklist, blacklist_file, access_token)
            /\ revoked' = IF access_token.sig = jwt_secret
                          THEN revoked \cup {access_token} ELSE revoked
       ELSE UNCHANGED <<blacklist, blacklist_file, revoked>>
    /\ um_sessions' = IF session_id # NoSid /\ session_id \in DOMAIN um_sessions
                      THEN Del(um_sessions, session_id)
                      ELSE um_sessions
    /\ current_user' = None
    /\ current_session' = Nil
    /\ last' = [op |-> "logout", session_id |-> session_id,
                by_token |-> (access_token # Nil),
                session_token |-> LogoutSessionToken(session_id, access_token),
                ret |-> TRUE,
                audit |-> IF LogoutUserEmail(access_token) # None
                          THEN <<"LOGOUT">> ELSE << >>]
    /\ UNCHANGED <<now, users, password_history, threads, auvars, rl_lock>>
    /\ UNCHANGED <<jwt_config, jwt_secret, keyring, next_key, next_jti, issued>>
    /\ UNCHANGED <<rlvars, smvars>>

refresh_token(token) ==
    LET new_access_token == RefreshedToken(blacklist, token, now, next_jti)
    IN  /\ new_access_token # Nil => RefreshesDone < MaxRefreshes
        /\ IF new_access_token = Nil
           THEN UNCHANGED <<issued, next_jti>>
           ELSE /\ issued' = issued \cup
                       {[token |-> new_access_token,
                         user |-> (CHOOSE m \in issued : m.token = token).user,
                         by |-> "refresh_access_token", role |-> "access"]}
                /\ next_jti' = next_jti + 1
        /\ last' = [op |-> "refresh_token", ret |-> (new_access_token # Nil),
                    audit |-> IF new_access_token # Nil
                              THEN <<"SESSION_REFRESH">> ELSE << >>]
        /\ UNCHANGED <<now, jwt_config, jwt_secret, keyring, next_key, blacklist,
                       blacklist_file, revoked>>
        /\ UNCHANGED <<rlvars, smvars, umvars>>

\* the clock advances by the base lockout of 30 minutes
UMDeltas == {Seconds(1800)}

TickUM ==
    /\ now < MaxNowUM
    /\ \E d \in UMDeltas : now' = now + d
    /\ last' = [op |-> "tick"]
    /\ UNCHANGED <<rlvars, jwtvars, smvars, umvars>>

\* what a caller can pass for a session: the id alone, an access token alone,
\* the id with the token of that session
UMSessionArgs ==
    {<<sid, Nil>> : sid \in DOMAIN um_sessions \cup {MaxLogins + 10}}
        \cup {<<NoSid, m.token>> : m \in {x \in issued : x.role = "access"}}
        \cup {<<NoSid, Nil>>}
        \cup {<<sid, um_sessions[sid].access_token>> : sid \in DOMAIN um_sessions}

\* SecureUserManager.__init__ with no users.enc and no sessions.enc
InitUserManager == UMUnused

InitUM ==
    /\ now = 0
    /\ config = RLDefaultConfig
    /\ InitRateLimiter(UMEmails)
    /\ InitJWTManager(JWTDefaultConfig)
    /\ SMUnused
    /\ InitUserManager
    /\ last = [op |-> "init"]

NextUM ==
    \/ TickUM
    \/ \E email \in UMEmailInputs, password \in UMSignupPasswords, name \in UMNames :
           signup(email, password, name)
    \/ \E email \in UMEmailInputs, password \in UMLoginPasswords : login(email, password)
    \/ \E args \in UMSessionArgs : login_with_session(args[1], args[2])
    \/ \E args \in UMSessionArgs : logout(args[1], args[2])
    \/ \E m \in issued : refresh_token(m.token)

SpecUM == InitUM /\ [][NextUM]_vars

----------------------------------------------------------------------------
(* SecureUserManager: change_password and the restart of the process *)

\* new passwords given to change_password
UMNewPasswords == {"N3w!Pass#2", "password", "Str0ng!Pass#1"}

\* PasswordService.validate_new_password with the current password given
validate_changed_password(history, user_email, new_password, current_password) ==
    validate_new_password(history, user_email, new_password)
        \o Issue(current_password # None /\ new_password = current_password,
                 "New password must be different from current password")

\* the user record after change_password stored a new hash
AfterPasswordChange(user_data, new_password_hash, t) ==
    [user_data EXCEPT !.password_hash = new_password_hash,
                      !.security.password_changed_at = IsoFormat(t)]

\* change_password(current_password, new_password).  The user is looked up
\* under self.current_user.get('email').  `last` records who was logged in,
\* what was given, what the call returned and the audit events it logged
change_password(current_password, new_password) ==
    LET user_email == CurrentUserEmail
        user_data == Get(users, user_email, Nil)
        issues == validate_changed_password(password_history, user_email, new_password,
                                            current_password)
        new_password_hash == hash_password(new_password)
        Return(success, message, audit) ==
            last' = [op |-> "change_password", logged_in |-> current_user,
                     current_password |-> current_password,
                     new_password |-> new_password,
                     ret |-> [success |-> success, message |-> message], audit |-> audit]
    IN  /\ IF current_user = None
           THEN /\ Return(FALSE, <<"No user logged in">>, << >>)
                /\ UNCHANGED <<users, password_history>>
           ELSE IF user_data = Nil
           THEN /\ Return(FALSE, <<"User not found">>, << >>)
                /\ UNCHANGED <<users, password_history>>
           ELSE IF ~verify_password(current_password, user_data.password_hash)
           THEN /\ Return(FALSE, <<"Current password is incorrect">>,
                          <<"SUSPICIOUS_ACTIVITY">>)
                /\ UNCHANGED <<users, password_history>>
           ELSE IF issues # << >>
           THEN /\ Return(FALSE, issues, << >>)
                /\ UNCHANGED <<users, password_history>>
           ELSE /\ password_history' = add_to_password_history(password_history,
                                           user_email, new_password_hash)
                /\ users' = Put(users, user_email,
                                AfterPasswordChange(user_data, new_password_hash, now))
                /\ Return(TRUE, <<"Password changed successfully">>, <<"PASSWORD_CHANGE">>)
        /\ UNCHANGED <<now, current_user, current_session, um_sessions, threads, auvars, rl_lock>>
        /\ UNCHANGED <<rlvars, jwtvars, smvars>>

\* EncryptionManager() with no master key: Fernet.generate_key() gives the
\* SecureStorage of every new process a key no earlier process had.  Only
\* whether two keys are the same matters: the key of the running process is
\* written 1 and the key of the process that follows it 2
UMStorageKey == 1

FreshKey == UMStorageKey + 1

\* users.enc as user_storage.save(self.users) writes it; signup and login save
\* after every change of self.users
SavedUsers == IF users = EmptyDict THEN EmptyDict
              ELSE [key |-> UMStorageKey, data |-> users]

\* sessions.enc as session_storage.save(sessions) writes it
SavedUMSessions == IF um_sessions = EmptyDict THEN EmptyDict
                   ELSE [key |-> UMStorageKey, data |-> um_sessions]

\* the process restarts: SecureUserManager() builds a new JWTManager (the
\* keyring holds the secret), a new RateLimiter over rate_limit_data.json, a
\* new PasswordService over password_history.json and two new SecureStorage
\* instances, and loads self.users.  `last` records the users before
RestartUserManager ==
    /\ jwt_secret' = KeyringSecret
    /\ keyring' = KeyringSecret
    /\ next_key' = IF keyring = NoKey THEN next_key + 1 ELSE next_key
    /\ blacklist' = LoadBlacklist(blacklist_file, jwt_secret')
    /\ lockouts' = LoadLockouts(rate_limit_data, now)
    /\ failed_attempts' = LoadFailed(rate_limit_data, now)
    /\ login_attempts' = [e \in DOMAIN login_attempts |-> << >>]
    /\ users' = LoadStorage(SavedUsers, FreshKey)
    /\ um_sessions' = LoadStorage(SavedUMSessions, FreshKey)
    /\ current_user' = None
    /\ current_session' = Nil
    /\ last' = [op |-> "SecureUserManager.__init__", users |-> DOMAIN users]
    /\ UNCHANGED <<now, config, rate_limit_data, streak, password_history, threads, auvars, rl_lock>>
    /\ UNCHANGED <<jwt_config, blacklist_file, next_jti, issued, revoked>>
    /\ UNCHANGED smvars

\* the account operations with restarts of the process
NextAcct ==
    \/ TickUM
    \/ \E email \in UMEmailInputs, password \in UMSignupPasswords, name \in UMNames :
           signup(email, password, name)
    \/ \E email \in UMEmailInputs, password \in UMLoginPasswords : login(email, password)
    \/ \E args \in UMSessionArgs : logout(args[1], args[2])
    \/ \E current_password \in UMLoginPasswords, new_password \in UMNewPasswords :
           change_password(current_password, new_password)
    \/ RestartUserManager

SpecAcct == InitUM /\ [][NextAcct]_vars

----------------------------------------------------------------------------
(* SecureStorage on its own: one namespace, its file secure_sessions and the
   key sm_key of the instance that is open on it *)

\* the dicts given to save
StoreDicts == {EmptyDict, [a |-> 1], [a |-> 2], [b |-> 1], [a |-> 1, b |-> 2],
               [a |-> 2, b |-> 1]}

\* SecureStorage.save(data)
StorageSave(data) ==
    /\ secure_sessions' = SavedSessions(data)
    /\ last' = [op |-> "SecureStorage.save", data |-> data]
    /\ UNCHANGED <<now, sm_config, sessions, sm_key, next_sid>>
    /\ UNCHANGED <<rlvars, jwtvars, umvars>>

\* SecureStorage.load(): "except Exception: return {}", so nothing is raised
StorageLoad ==
    /\ last' = [op |-> "SecureStorage.load", raised |-> None,
                ret |-> LoadStorage(secure_sessions, sm_key)]
    /\ UNCHANGED <<now, smvars>>
    /\ UNCHANGED <<rlvars, jwtvars, umvars>>

\* a byte of the stored ciphertext is changed: the Fernet token then
\* authenticates under no key
StorageTamper ==
    /\ secure_sessions # EmptyDict
    /\ secure_sessions' = [secure_sessions EXCEPT !.key = NoKey]
    /\ last' = [op |-> "tamper"]
    /\ UNCHANGED <<now, sm_config, sessions, sm_key, next_sid>>
    /\ UNCHANGED <<rlvars, jwtvars, umvars>>

\* SecureStorage(storage_name) in a new process: EncryptionManager() makes a
\* new key
StorageNewInstance ==
    /\ sm_key < MaxStorageKeys
    /\ sm_key' = sm_key + 1
    /\ last' = [op |-> "SecureStorage.__init__"]
    /\ UNCHANGED <<now, sm_config, sessions, secure_sessions, next_sid>>
    /\ UNCHANGED <<rlvars, jwtvars, umvars>>

InitStore ==
    /\ now = 0
    /\ RLUnused
    /\ JWTUnused
    /\ SMUnused
    /\ UMUnused
    /\ last = [op |-> "init"]

NextStore ==
    \/ \E data \in StoreDicts : StorageSave(data)
    \/ StorageLoad
    \/ StorageTamper
    \/ StorageNewInstance

SpecStore == InitStore /\ [][NextStore]_vars

----------------------------------------------------------------------------
(* SecureUserManager.login called by several threads of one process *)

MaxThreads == 2

Threads == 1..MaxThreads

ConcEmails == {"a@b.com", "c@d.com"}

\* a thread that is not inside login
Idle == [pc |-> "idle", email |-> None, success |-> FALSE, session_id |-> NoSid,
         session_data |-> Nil, sessions |-> EmptyDict]

\* login(email, password) on thread th, up to and with
\* "sessions = self.session_storage.load()".  A login that fails returns
\* before that line and is one step.  A login that succeeds has changed the
\* user record in self.users, made its tokens and its session id, and holds
\* the table it loaded in its local variable `sessions`
LoginLoad(th, email, password) ==
    LET out == LoginOutcome(email, password, now)
        normalized_email == validate_email(email).normalized
    IN  /\ threads[th].pc = "idle"
        /\ users' = out.users
        /\ next_jti' = out.next_jti
        /\ next_sid' = out.next_sid
        /\ issued' = out.issued
        /\ IF out.ret.success
           THEN /\ SetRLState(AfterCheck(RLState, normalized_email, now))
                /\ threads' = [threads EXCEPT ![th] =
                       [pc |-> "loaded", email |-> normalized_email, success |-> TRUE,
                        session_id |-> out.ret.tokens.session_id,
                        session_data |-> out.current_session,
                        sessions |-> um_sessions]]
                /\ UNCHANGED streak
           ELSE /\ SetRLState(out.rate_limiter)
                /\ threads' = [threads EXCEPT ![th] =
                       [Idle EXCEPT !.pc = "done", !.email = normalized_email]]
                /\ streak' = IF out.recorded = None THEN streak
                             ELSE StreakAfter(normalized_email, FALSE)
        /\ last' = [op |-> "login", thread |-> th, returned |-> ~out.ret.success]
        /\ UNCHANGED <<now, config, jwt_config, jwt_secret, keyring, next_key, blacklist,
                       blacklist_file, revoked>>
        /\ UNCHANGED <<sm_config, sessions, secure_sessions, sm_key>>
        /\ UNCHANGED <<um_sessions, current_user, current_session, password_history, auvars, rl_lock>>

\* the rest of a login that succeeds, from "sessions[session_id] =
\* session_data; self.session_storage.save(sessions)" to its return
LoginSave(th) ==
    LET my == threads[th]
    IN  /\ my.pc = "loaded"
        /\ um_sessions' = Put(my.sessions, my.session_id, my.session_data)
        /\ current_user' = my.email
        /\ current_session' = my.session_data
        /\ SetRLState(AfterRecord(RLState, my.email, TRUE, now))
        /\ streak' = StreakAfter(my.email, TRUE)
        /\ threads' = [threads EXCEPT ![th].pc = "done"]
        /\ last' = [op |-> "login", thread |-> th, returned |-> TRUE]
        /\ UNCHANGED <<now, config, users, password_history, auvars, rl_lock>>
        /\ UNCHANGED <<jwtvars, smvars>>

InitConc ==
    /\ now = 0
    /\ config = RLDefaultConfig
    /\ InitRateLimiter(ConcEmails)
    /\ InitJWTManager(JWTDefaultConfig)
    /\ SMUnused
    /\ users = EmptyDict
    /\ current_user = None
    /\ current_session = Nil
    /\ um_sessions = EmptyDict
    /\ password_history = EmptyDict
    /\ threads = [th \in Threads |-> Idle]
    /\ AuditUnused
    /\ rl_lock = NoThread
    /\ last = [op |-> "init"]

NextConc ==
    \/ \E email \in ConcEmails, name \in UMNames : signup(email, "Str0ng!Pass#1", name)
    \/ \E th \in Threads, email \in ConcEmails, password \in UMLoginPasswords :
           LoginLoad(th, email, password)
    \/ \E th \in Threads : LoginSave(th)

SpecConc == InitConc /\ [][NextConc]_vars

----------------------------------------------------------------------------
(* PasswordService on its own: the password history of one identity *)

\* PasswordService(history_count=5), the default
history_count == 5

\* the passwords of test_password_history
PWPasswords == {"Pass1!", "Pass2!", "Pass3!"}

\* hash_password(password), then add_to_password_history(user_email, hash).
\* `last` records the hash and the hash that was popped, Nil if none was
AddToPasswordHistory(user_email, password) ==
    LET password_hash == hash_password(password)
        user_history == Get(password_history, user_email, << >>)
    IN  /\ password_history' = add_to_password_history(password_history, user_email,
                                                       password_hash)
        /\ last' = [op |-> "add_to_password_history", user_email |-> user_email,
                    password_hash |-> password_hash,
                    popped |-> IF Len(user_history) + 1 > history_count
                               THEN user_history[1] ELSE Nil]
        /\ UNCHANGED <<now, users, current_user, current_session, um_sessions, threads, auvars, rl_lock>>
        /\ UNCHANGED <<rlvars, jwtvars, smvars>>

\* check_password_history(user_email, new_password)
CheckPasswordHistory(user_email, new_password) ==
    /\ last' = [op |-> "check_password_history", user_email |-> user_email,
                new_password |-> new_password,
                ret |-> check_password_history(password_history, user_email, new_password)]
    /\ UNCHANGED <<now, umvars>>
    /\ UNCHANGED <<rlvars, jwtvars, smvars>>

InitPW ==
    /\ now = 0
    /\ RLUnused
    /\ JWTUnused
    /\ SMUnused
    /\ UMUnused
    /\ last = [op |-> "init"]

NextPW ==
    \/ \E user_email \in UMEmails, password \in PWPasswords :
           AddToPasswordHistory(user_email, password)
    \/ \E user_email \in UMEmails, password \in PWPasswords :
           CheckPasswordHistory(user_email, password)

SpecPW == InitPW /\ [][NextPW]_vars

----------------------------------------------------------------------------
(* AuditLogger on its own: the list of events and the file behind it *)

\* the bound on the number of log_event calls of one run
MaxEvents == 101

\* the bound on the clock of SpecAudit: 91 days, in ticks
MaxNowAudit == 15724800

Days(n) == Seconds(n * 24 * 3600)

\* AuditLogger(encrypt_logs=False) as SecureUserManager and the tests build
\* it, and AuditLogger(max_events=2, encrypt_logs=False)
AuditDefaultConfig == [max_events |-> 10000, retention_days |-> 90]

AuditConfigs == {AuditDefaultConfig, [max_events |-> 2, retention_days |-> 90]}

\* s[-n:] of Python, for n > 0
LastN(s, n) == IF Len(s) > n THEN SubSeq(s, Len(s) - n + 1, Len(s)) ELSE s

\* AuditLogger._cleanup_old_events applied to a list, at time t
cleanup_old_events(evs, t) ==
    IF audit_config.retention_days <= 0 THEN evs
    ELSE LET cutoff_time == t - Days(audit_config.retention_days)
         IN  SelectSeq(evs, LAMBDA event : event.timestamp > cutoff_time)

\* AuditLogger.log_event: append, cut to max_events, clean up when the
\* length is a multiple of 100, save
log_event ==
    /\ next_event <= MaxEvents
    /\ LET event == [event_id |-> next_event, timestamp |-> now]
           appended == Append(events, event)
           kept == IF Len(appended) > audit_config.max_events
                   THEN LastN(appended, audit_config.max_events)
                   ELSE appended
           cleaned == IF Len(kept) % 100 = 0
                      THEN cleanup_old_events(kept, now)
                      ELSE kept
       IN  /\ events' = cleaned
           /\ audit_logs' = cleaned
           /\ last' = [op |-> "log_event", ret |-> event.event_id,
                       cleanup |-> (Len(kept) % 100 = 0)]
    /\ next_event' = next_event + 1
    /\ UNCHANGED <<now, audit_config>>
    /\ UNCHANGED <<rlvars, jwtvars, smvars>>
    /\ UNCHANGED <<users, current_user, current_session, um_sessions, password_history,
                   threads, rl_lock>>

\* the process ends and AuditLogger.__init__ runs again on audit_logs.json
RestartAuditLogger ==
    /\ events' = audit_logs
    /\ last' = [op |-> "restart"]
    /\ UNCHANGED <<now, audit_config, audit_logs, next_event>>
    /\ UNCHANGED <<rlvars, jwtvars, smvars>>
    /\ UNCHANGED <<users, current_user, current_session, um_sessions, password_history,
                   threads, rl_lock>>

AuditDeltas == {Days(91)}

TickAudit ==
    /\ \E delta \in AuditDeltas :
        /\ now + delta <= MaxNowAudit
        /\ now' = now + delta
    /\ last' = [op |-> "tick"]
    /\ UNCHANGED <<rlvars, jwtvars, smvars, umvars>>

InitAudit ==
    /\ now = 0
    /\ RLUnused /\ JWTUnused /\ SMUnused
    /\ users = EmptyDict
    /\ current_user = None
    /\ current_session = EmptyDict
    /\ um_sessions = EmptyDict
    /\ password_history = EmptyDict
    /\ threads = EmptyDict
    /\ rl_lock = NoThread
    /\ audit_config \in AuditConfigs
    /\ events = <<>>
    /\ audit_logs = <<>>
    /\ next_event = 1
    /\ last = [op |-> "init"]

NextAudit ==
    \/ log_event
    \/ RestartAuditLogger
    \/ TickAudit

SpecAudit == InitAudit /\ [][NextAudit]_vars

----------------------------------------------------------------------------
(* SecureUserManager: signups and logins with two strong passwords *)

\* the passwords of test_duplicate_signup_prevention and a weak one
SignupPasswords == {"Str0ng!Pass#1", "N3w!Pass#2", "password"}

NextSignup ==
    \/ TickUM
    \/ \E email \in UMEmailInputs, password \in SignupPasswords, name \in UMNames :
           signup(email, password, name)
    \/ \E email \in UMEmailInputs, password \in SignupPasswords : login(email, password)

SpecSignup == InitUM /\ [][NextSignup]_vars

----------------------------------------------------------------------------
(* RateLimiter called by several threads of one process *)

\* a thread outside the limiter
RLIdle == [pc |-> "idle", email |-> None, success |-> FALSE]

\* the calls a thread makes: a login, which calls check_login_rate_limit and,
\* when that allows it, verifies the password and calls record_login_attempt
\* (secure_user_manager.py:191-241); get_user_status; is_user_locked_out
RLThreadCalls == {"check_login_rate_limit", "get_user_status", "is_user_locked_out"}

ThreadCall(th) ==
    /\ threads[th].pc = "idle"
    /\ \E e \in RLEmails, op \in RLThreadCalls, success \in BOOLEAN :
        /\ success => op = "check_login_rate_limit"
        /\ threads' = [threads EXCEPT ![th] = [pc |-> op, email |-> e, success |-> success]]
    /\ last' = [op |-> "call"]
    /\ UNCHANGED <<now, rlvars, jwtvars, smvars, rl_lock, auvars>>
    /\ UNCHANGED <<users, current_user, current_session, um_sessions, password_history>>

\* check_login_rate_limit, whose whole body is "with self._lock"; a login
\* that is allowed goes on to the password check and to record_login_attempt
ThreadCheck(th) ==
    LET my == threads[th]
        ret == CheckResult(lockouts, login_attempts, my.email, now)
    IN  /\ my.pc = "check_login_rate_limit"
        /\ rl_lock = NoThread
        /\ SetRLState(AfterCheck(RLState, my.email, now))
        /\ threads' = [threads EXCEPT ![th] =
                          IF ret.allowed THEN [my EXCEPT !.pc = "record_login_attempt"]
                          ELSE RLIdle]
        /\ last' = [op |-> "check_login_rate_limit", ret |-> ret]
        /\ UNCHANGED <<now, config, streak, jwtvars, smvars, rl_lock, auvars>>
        /\ UNCHANGED <<users, current_user, current_session, um_sessions, password_history>>

\* record_login_attempt, whose body is "with self._lock"
ThreadRecord(th) ==
    LET my == threads[th]
    IN  /\ my.pc = "record_login_attempt"
        /\ rl_lock = NoThread
        /\ Len(login_attempts[my.email]) < MaxAttempts
        /\ Get(failed_attempts, my.email, 0) < MaxFailed
        /\ SetRLState(AfterRecord(RLState, my.email, my.success, now))
        /\ streak' = StreakAfter(my.email, my.success)
        /\ threads' = [threads EXCEPT ![th] = RLIdle]
        /\ last' = [op |-> "record_login_attempt", success |-> my.success]
        /\ UNCHANGED <<now, config, jwtvars, smvars, rl_lock, auvars>>
        /\ UNCHANGED <<users, current_user, current_session, um_sessions, password_history>>

\* get_user_status up to its call of is_user_locked_out: "with self._lock:"
\* acquires the lock, a threading.Lock, and the call is made holding it
get_user_status(th) ==
    LET my == threads[th]
    IN  /\ my.pc = "get_user_status"
        /\ rl_lock = NoThread
        /\ rl_lock' = th
        /\ threads' = [threads EXCEPT ![th].pc = "get_user_status: is_user_locked_out"]
        /\ last' = [op |-> "get_user_status"]
        /\ UNCHANGED <<now, rlvars, jwtvars, smvars, auvars>>
        /\ UNCHANGED <<users, current_user, current_session, um_sessions, password_history>>

\* the dict get_user_status returns after is_user_locked_out returned ret
UserStatus(ret, la, fa, e, t) ==
    LET recent_attempts == Cardinality({i \in DOMAIN la[e] : la[e][i] > t - WindowTicks})
    IN  [email |-> e, is_locked_out |-> ret.locked, unlock_in_seconds |-> ret.unlock_in,
         failed_attempts |-> Get(fa, e, 0),
         recent_attempts |-> recent_attempts,
         attempts_remaining |->
             IF config.login_attempts_per_window - recent_attempts > 0
             THEN config.login_attempts_per_window - recent_attempts ELSE 0,
         window_resets_in |->
             IntSeconds(WindowTicks - (t - (IF la[e] # << >> THEN la[e][1] ELSE t)))]

\* is_user_locked_out, called by the thread itself or from get_user_status:
\* "with self._lock:" waits until no thread holds the lock, the calling
\* thread included; get_user_status returns when its call has returned
ThreadLockedOut(th) ==
    LET my == threads[th]
        ret == LockedOutResult(lockouts, my.email, now)
    IN  /\ my.pc \in {"is_user_locked_out", "get_user_status: is_user_locked_out"}
        /\ rl_lock = NoThread
        /\ lockouts' = DropExpiredLockouts(lockouts, my.email, now)
        /\ failed_attempts' = ResetExpiredFailed(lockouts, failed_attempts, my.email, now)
        /\ rate_limit_data' = IF IsExpired(lockouts, my.email, now)
                              THEN SavedData(lockouts', failed_attempts')
                              ELSE rate_limit_data
        /\ threads' = [threads EXCEPT ![th] = RLIdle]
        /\ last' = IF my.pc = "is_user_locked_out"
                   THEN [op |-> "is_user_locked_out", ret |-> ret]
                   ELSE [op |-> "get_user_status returned", thread |-> th,
                         ret |-> UserStatus(ret, login_attempts, failed_attempts',
                                            my.email, now)]
        /\ UNCHANGED <<now, config, login_attempts, streak, jwtvars, smvars, rl_lock, auvars>>
        /\ UNCHANGED <<users, current_user, current_session, um_sessions, password_history>>

\* the steps of one thread
RLThread(th) ==
    \/ ThreadCall(th)
    \/ ThreadCheck(th)
    \/ ThreadRecord(th)
    \/ get_user_status(th)
    \/ ThreadLockedOut(th)

\* the clock advances by one minute
TickRLConc ==
    /\ now + Seconds(60) <= MaxNowRL
    /\ now' = now + Seconds(60)
    /\ last' = [op |-> "tick"]
    /\ UNCHANGED <<rlvars, jwtvars, smvars, umvars>>

InitRLConc ==
    /\ now = 0
    /\ config \in RLConfigs
    /\ InitRateLimiter(RLEmails)
    /\ JWTUnused
    /\ SMUnused
    /\ users = EmptyDict
    /\ current_user = None
    /\ current_session = EmptyDict
    /\ um_sessions = EmptyDict
    /\ password_history = EmptyDict
    /\ threads = [th \in Threads |-> RLIdle]
    /\ AuditUnused
    /\ rl_lock = NoThread
    /\ last = [op |-> "init"]

NextRLConc ==
    \/ TickRLConc
    \/ \E th \in Threads : ThreadCall(th)
    \/ \E th \in Threads : ThreadCheck(th)
    \/ \E th \in Threads : ThreadRecord(th)
    \/ \E th \in Threads : get_user_status(th)
    \/ \E th \in Threads : ThreadLockedOut(th)

SpecRLConc == InitRLConc /\ [][NextRLConc]_vars

\* every thread that can take a step takes one in the end
SpecRLConcFair == SpecRLConc /\ \A th \in Threads : WF_vars(RLThread(th))

----------------------------------------------------------------------------
(* SecureSessionManager with remember-me sessions *)

NextRemember ==
    \/ TickSM
    \/ \E u \in SMUsers, remember_me \in BOOLEAN : create_session(u, remember_me)
    \/ \E args \in SMValidateArgs : validate_session(args[1], args[2])
    \/ \E token \in SMRefreshTokens : refresh_session(token)

SpecRemember == InitSM /\ [][NextRemember]_vars

----------------------------------------------------------------------------
(* RateLimiter used through SecureUserManager.login only, by one thread *)

\* the limiter calls of one login: check_login_rate_limit and, when it
\* allows the attempt, record_login_attempt with the outcome of the password
\* check (secure_user_manager.py:191-270)
LimiterLogin(e, success) ==
    LET check == CheckResult(lockouts, login_attempts, e, now)
        checked == AfterCheck(RLState, e, now)
    IN  /\ IF check.allowed
           THEN /\ Len(checked.login_attempts[e]) < MaxAttempts
                /\ Get(checked.failed_attempts, e, 0) < MaxFailed
                /\ SetRLState(AfterRecord(checked, e, success, now))
                /\ streak' = StreakAfter(e, success)
           ELSE /\ SetRLState(checked)
                /\ UNCHANGED streak
        /\ last' = [op |-> "login", email |-> e, allowed |-> check.allowed,
                    success |-> success]
        /\ UNCHANGED <<now, config>>
        /\ UNCHANGED <<jwtvars, smvars, umvars>>

NextPipeline ==
    \/ TickRL
    \/ \E e \in RLEmails, success \in BOOLEAN : LimiterLogin(e, success)
    \/ _cleanup_expired_entries

SpecPipeline == InitRL /\ [][NextPipeline]_vars

----------------------------------------------------------------------------
(* RateLimiter with a lockout that reaches its cap *)

\* RateLimiter(login_attempts_per_window=2, login_window_minutes=1,
\*             lockout_duration_minutes=30, max_lockout_duration_hours=1):
\* the default lockout with a cap of one hour
CappedConfig ==
    [login_attempts_per_window |-> 2, login_window_minutes |-> 1,
     lockout_duration_minutes |-> 30, max_lockout_duration_hours |-> 1]

InitLockout ==
    /\ now = 0
    /\ config \in RLConfigs \cup {CappedConfig}
    /\ InitRateLimiter(RLEmails)
    /\ JWTUnused
    /\ SMUnused
    /\ UMUnused
    /\ last = [op |-> "init"]

SpecLockout == InitLockout /\ [][NextRL]_vars

----------------------------------------------------------------------------
(* SecureSessionManager across restarts of the process *)

MaxNowRestart == 121

\* test_session_expiration calls the sweep of a running manager
CleanupExpiredSessions ==
    /\ sessions' = _cleanup_expired_sessions(sessions, now)
    /\ secure_sessions' = IF ExpiredSessions(sessions, now) # {}
                          THEN SavedSessions(sessions')
                          ELSE secure_sessions
    /\ last' = [op |-> "_cleanup_expired_sessions"]
    /\ UNCHANGED <<now, sm_config, sm_key, next_sid>>
    /\ UNCHANGED <<jwtvars, rlvars, umvars>>

\* the clock passes the end of a one-minute session
TickRestart ==
    /\ now + Seconds(60) + 1 <= MaxNowRestart
    /\ now' = now + Seconds(60) + 1
    /\ last' = [op |-> "tick"]
    /\ UNCHANGED <<sm_config, sessions, secure_sessions, sm_key, next_sid>>
    /\ UNCHANGED <<jwtvars, rlvars, umvars>>

NextRestart ==
    \/ TickRestart
    \/ \E u \in SMUsers : create_session(u, FALSE)
    \/ \E sid \in SMSessionIds : invalidate_session(sid)
    \/ CleanupExpiredSessions
    \/ RestartSessionManager

SpecRestart == InitSM /\ [][NextRestart]_vars

----------------------------------------------------------------------------
(* JWTManager with a blacklist that is compacted *)

\* "if len(self.blacklist) > 10000" and "[-5000:]", scaled by 1/5000 so that
\* a blacklist over the limit fits the tokens of one run
BlacklistLimit == 2

BlacklistKeep == 1

\* set(list(self.blacklist)[-BlacklistKeep:]): a set of str iterates in the
\* order of the hashes of its elements, which differs from process to
\* process, so the slice can be any BlacklistKeep elements
CompactedBlacklists(bl) == {kept \in SUBSET bl : Cardinality(kept) = BlacklistKeep}

\* JWTManager.cleanup_expired_blacklist
cleanup_expired_blacklist ==
    /\ IF Cardinality(blacklist) > BlacklistLimit
       THEN \E kept \in CompactedBlacklists(blacklist) :
               /\ blacklist' = kept
               /\ blacklist_file' = SavedBlacklist(kept)
       ELSE UNCHANGED <<blacklist, blacklist_file>>
    /\ last' = [op |-> "cleanup_expired_blacklist",
                compacted |-> Cardinality(blacklist) > BlacklistLimit]
    /\ UNCHANGED <<now, jwt_config, jwt_secret, keyring, next_key, next_jti, issued,
                   revoked>>
    /\ UNCHANGED <<rlvars, smvars, umvars>>

\* the issued tokens newer than every token blacklisted so far: blacklisted
\* in this order, a token with a greater jti was added later
NewerTokens ==
    {token \in IssuedTokens : \A r \in revoked : token.payload.jti > r.payload.jti}

NextCompact ==
    \/ TickJWT
    \/ \E u \in JWTUsers : create_token_pair(u)
    \/ \E token \in IssuedTokens, token_type \in {"access", "refresh"} :
           verify_token(token, token_type)
    \/ \E token \in NewerTokens : blacklist_token(token)
    \/ cleanup_expired_blacklist

SpecCompact == InitJWT /\ [][NextCompact]_vars

----------------------------------------------------------------------------
(* JWTManager constructed while the keyring works or raises *)

NextKeyFail ==
    \/ TickJWT
    \/ \E u \in JWTUsers : create_token_pair(u)
    \/ \E token \in Presentable, token_type \in {"access", "refresh"} :
           verify_token(token, token_type)
    \/ \E keyring_ok \in BOOLEAN : RestartJWTManager(keyring_ok)

SpecKeyFail == InitJWT /\ [][NextKeyFail]_vars

----------------------------------------------------------------------------
(* Claims about the JWTManager, checked under SpecJWT *)

\* C3 (Blacklist permanence): once blacklist_token was called on a validly
\* signed token, verify_token(t, "access") returns None in every later state,
\* whatever tokens were created, refreshed or blacklisted in between.
C3_BlacklistPermanent ==
    \A t \in revoked : VerifyToken(blacklist, t, "access", now) = Nil

\* a blacklisted access token that has not expired was verified and rejected
\* after a later token was minted
C3_Witness ==
    /\ last.op = "verify_token"
    /\ ~last.valid
    /\ \E t \in revoked, m \in issued :
          /\ t \in IssuedTokens
          /\ t.payload.type = "access"
          /\ t.payload.exp > now
          /\ m.token.payload.jti > t.payload.jti

\* C5 (Token round-trip): while it is unexpired and not blacklisted, the access
\* token of create_token_pair(identity) verifies as "access" with sub = the
\* identity's email and name = the identity's name, and the refresh token of
\* the pair verifies as "refresh" with the same sub.
C5_TokenRoundTrip ==
    \A m \in issued :
        (/\ m.by = "create_token_pair"
         /\ m.token.payload.exp > now
         /\ m.token.payload.jti \notin blacklist)
        => LET claims == VerifyToken(blacklist, m.token, m.role, now)
           IN  /\ claims # Nil
               /\ claims.sub = m.user.email
               /\ m.role = "access" => claims.name = m.user.name

\* both tokens of a pair are alive some time after they were made
C5_Witness ==
    \E a \in issued, r \in issued :
        /\ a.by = "create_token_pair" /\ a.role = "access"
        /\ r.by = "create_token_pair" /\ r.role = "refresh"
        /\ r.token.payload.jti = a.token.payload.jti + 1
        /\ now > a.token.payload.iat
        /\ a.token.payload.exp > now
        /\ {a.token.payload.jti, r.token.payload.jti} \cap blacklist = {}

\* C6 (No partial trust): verify_token returns claims only for a token whose
\* signature, issuer, expiry, type and blacklist check all pass, and None
\* otherwise; refresh_access_token given a token that is not a refresh token
\* returns None and mints nothing.
C6_NoPartialTrust ==
    [][/\ \A token \in Presentable', token_type \in {"access", "refresh"} :
             VerifyToken(blacklist', token, token_type, now') # Nil
             => /\ VerifyToken(blacklist', token, token_type, now') = token.payload
                /\ token.sig = jwt_secret'
                /\ token.payload.iss = jwt_config'.issuer
                /\ token.payload.exp > now'
                /\ token.payload.type = token_type
                /\ token.payload.jti \notin blacklist'
       /\ (last'.op = "refresh_access_token" /\ last'.token.payload.type # "refresh")
          => /\ RefreshedToken(blacklist, last'.token, now, next_jti) = Nil
             /\ issued' = issued
             /\ next_jti' = next_jti]_vars

\* refresh_access_token was given an access token that verifies as "access"
C6_Witness ==
    /\ last.op = "refresh_access_token"
    /\ last.token.payload.type = "access"
    /\ VerifyToken(blacklist, last.token, "access", now) # Nil

----------------------------------------------------------------------------
(* Claims about the RateLimiter, checked under SpecRL *)

T == config.login_attempts_per_window

\* C1 (Lockout threshold): the failed attempt that is the T-th recorded for an
\* identity since its last success locks the identity, and for as long as
\* locked_until has not passed is_user_locked_out reports it locked and
\* check_login_rate_limit returns allowed = false with a reason and
\* retry_after > 0.
C1_LockoutThreshold ==
    [][\A e \in RLEmails :
          /\ (/\ last'.op = "record_login_attempt"
              /\ last'.email = e
              /\ ~last'.success
              /\ streak'[e] = T)
             => IsLocked(lockouts', e, now')
          /\ IsLocked(lockouts', e, now')
             => /\ LockedOutResult(lockouts', e, now').locked
                /\ CheckResult(lockouts', login_attempts', e, now').allowed = FALSE
                /\ CheckResult(lockouts', login_attempts', e, now').reason # None
                /\ CheckResult(lockouts', login_attempts', e, now').retry_after > 0]_vars

\* C7 (Success resets the limiter): after record_login_attempt(e, success=true)
\* the failure counter of e is 0 and e has no lockout entry, whatever the state
\* before, so e is reported as not locked with 0 failed attempts.
C7_SuccessResets ==
    (last.op = "record_login_attempt" /\ last.success)
    => /\ Get(failed_attempts, last.email, 0) = 0
       /\ last.email \notin DOMAIN lockouts
       /\ LockedOutResult(lockouts, last.email, now) = [locked |-> FALSE, unlock_in |-> None]
       /\ Get(rate_limit_data.failed_attempts, last.email, 0) = 0
       /\ last.email \notin DOMAIN rate_limit_data.lockouts

\* a success was recorded for an identity that was locked with T or more failures
C7_Witness ==
    /\ last.op = "record_login_attempt"
    /\ last.success
    /\ last.was_locked
    /\ last.was_failed >= T

\* C8 (Lockout expiry resets the counter): whenever a lockout that has passed
\* locked_until is dropped, by whichever path, the identity's failed_attempts
\* is 0 afterwards.
C8_ExpiryResetsCounter ==
    [][\A e \in RLEmails :
          (IsExpired(lockouts, e, now) /\ e \notin DOMAIN lockouts')
          => Get(failed_attempts', e, 0) = 0]_vars

----------------------------------------------------------------------------
(* Claims about the SecureSessionManager, checked under SpecSM *)

ActiveSessions(ss, user_email) ==
    {sid \in DOMAIN ss : ss[sid].user_email = user_email /\ ss[sid].is_active}

\* C9 (Session cap): after any sequence of create_session, validate_session,
\* refresh_session, invalidate_session and invalidate_all_user_sessions, every
\* identity has at most max_sessions_per_user sessions with is_active = true.
C9_SessionCap ==
    \A u \in SMUsers : Cardinality(ActiveSessions(sessions, u.email)) <= M

\* an identity is at the cap of 2 after a create_session that had to evict
C9_Witness ==
    /\ last.op = "create_session"
    /\ M = 2
    /\ last.evicted # << >>
    /\ ~sessions[last.evicted[1]].is_active
    /\ Cardinality(ActiveSessions(sessions, last.user_email)) = M

----------------------------------------------------------------------------
(* Claims about the SecureUserManager, checked under SpecUM *)

\* the password the user of a well-formed email signed up with was given
RightPassword(normalized_email, password) ==
    /\ normalized_email \in DOMAIN users
    /\ verify_password(password, users[normalized_email].password_hash)

\* C2 (Lockout regardless of correctness): while the limiter has an identity
\* locked out, a login of that identity with the correct password returns
\* failure with the lockout reason and no tokens, makes no token, stores no
\* session and leaves the current user and the current session as they were,
\* and its whole outcome is the outcome of a login with a wrong password.
C2_LockoutRegardless ==
    [][(/\ last'.op = "login"
        /\ IsLocked(lockouts, last'.normalized, now)
        /\ RightPassword(last'.normalized, last'.password))
       => /\ ~last'.ret.success
          /\ last'.ret.message = "Account temporarily locked due to too many failed attempts"
          /\ last'.ret.tokens = Nil
          /\ next_jti' = next_jti
          /\ issued' = issued
          /\ um_sessions' = um_sessions
          /\ current_user' = current_user
          /\ current_session' = current_session
          /\ users' = users
          /\ LoginOutcome(last'.normalized, last'.password, now)
                 = LoginOutcome(last'.normalized, "wrong", now)]_vars

\* a login with the correct password was turned away with the lockout reason
\* while the identity is still locked out, and nobody is logged in
C2_Witness ==
    /\ last.op = "login"
    /\ RightPassword(last.normalized, last.password)
    /\ IsLocked(lockouts, last.normalized, now)
    /\ ~last.ret.success
    /\ last.ret.message = "Account temporarily locked due to too many failed attempts"
    /\ current_user = None
    /\ um_sessions = EmptyDict

\* C4 (Logout revokes the access token): after logout returned true for a
\* session, verify_token rejects the access token of that session, whether
\* logout was given the session id only, the access token only, or both.
C4_LogoutRevokes ==
    (last.op = "logout" /\ last.ret /\ last.session_token # Nil)
        => VerifyToken(blacklist, last.session_token, "access", now) = Nil

----------------------------------------------------------------------------
(* More claims about the SecureSessionManager, checked under SpecSM *)

\* C11 (Terminal session states): once a session has been invalidated or
\* found expired (its is_active is false from then on), validate_session
\* does not return valid for its session id again, whatever validate_session,
\* refresh_session and create_session calls came in between.
C11_TerminalSessions ==
    \A sid \in DOMAIN sessions :
        ~sessions[sid].is_active => ~ValidateResult(SMState, sid, Nil, now).valid

\* what refresh_session(refresh_token) returns: Nil for None
RefreshSessionResult(token) ==
    LET new_access_token == RefreshedToken(blacklist, token, now, next_jti)
        sid == SessionWithRefreshToken(sessions, token)
    IN  IF new_access_token = Nil \/ sid = NoSid THEN Nil
        ELSE [access_token |-> new_access_token, refresh_token |-> token,
              expires_at |-> Refreshed(sessions[sid], new_access_token, now).expires_at]

\* C12 (Refresh token lifetime): after the session that owns a refresh token
\* was logged out or invalidated, a refresh with that refresh token returns
\* None and makes no new valid access token.
C12_RefreshEndsWithSession ==
    \A sid \in DOMAIN sessions :
        ~sessions[sid].is_active
        => /\ RefreshSessionResult(sessions[sid].refresh_token) = Nil
           /\ RefreshedToken(blacklist, sessions[sid].refresh_token, now, next_jti) = Nil

----------------------------------------------------------------------------
(* More claims about the JWTManager, checked under SpecJWT *)

\* the ids of the tokens handed out so far
IssuedIds == {m.token.payload.jti : m \in issued}

\* C13 (Refresh does not rotate): a refresh_access_token call that finds its
\* refresh token valid returns a new access token for the same subject, with
\* an id no token issued before has, that verifies as "access"; the call
\* leaves the blacklist as it was, and the refresh token still verifies as
\* "refresh" after it.
C13_RefreshKeepsToken ==
    [][(/\ last'.op = "refresh_access_token"
        /\ VerifyToken(blacklist, last'.token, "refresh", now) # Nil)
       => LET new == RefreshedToken(blacklist, last'.token, now, next_jti)
          IN  /\ new # Nil
              /\ new \in {m.token : m \in issued' \ issued}
              /\ new.payload.sub = last'.token.payload.sub
              /\ new.payload.jti \notin IssuedIds
              /\ new # last'.token
              /\ VerifyToken(blacklist', new, "access", now') # Nil
              /\ VerifyToken(blacklist', new, "access", now').sub = last'.token.payload.sub
              /\ blacklist' = blacklist
              /\ blacklist_file' = blacklist_file
              /\ VerifyToken(blacklist', last'.token, "refresh", now') # Nil]_vars

\* the same refresh token has made two access tokens, while some token is
\* blacklisted, and it still verifies
C13_Witness ==
    /\ last.op = "refresh_access_token"
    /\ blacklist # {}
    /\ VerifyToken(blacklist, last.token, "refresh", now) # Nil
    /\ Cardinality({m \in issued : /\ m.by = "refresh_access_token"
                                   /\ m.user.email = last.token.payload.sub
                                   /\ VerifyToken(blacklist, m.token, "access", now) # Nil}) >= 2

----------------------------------------------------------------------------
(* More claims about the SecureUserManager, checked under SpecUM *)

\* the message login returns for an email no user has, with the limiter as
\* it is at time t
UnknownEmailMessage(normalized_email, t) ==
    LET check == CheckResult(lockouts, login_attempts, normalized_email, t)
    IN  IF ~RateAllowed(check) THEN check.reason ELSE "Invalid email or password"

\* C14 (Login does not reveal account existence): a login of a known email
\* with a wrong password that fails returns the message a login of an unknown
\* email returns after the same earlier attempts.
C14_NoAccountReveal ==
    [][(/\ last'.op = "login"
        /\ ~last'.ret.success
        /\ last'.normalized \in DOMAIN users
        /\ ~RightPassword(last'.normalized, last'.password))
       => last'.ret.message = UnknownEmailMessage(last'.normalized, now)]_vars

----------------------------------------------------------------------------
(* Claims about the account operations with restarts, checked under SpecAcct *)

\* C15 (Password change takes effect): change_password by a logged-in user,
\* with the correct current password and a new password that passes the
\* strength and history checks, returns success, stores the hash of the new
\* password and appends it to the user's password history.
C15_PasswordChange ==
    [][(/\ last'.op = "change_password"
        /\ current_user # None
        /\ current_user \in DOMAIN users
        /\ verify_password(last'.current_password, users[current_user].password_hash)
        /\ validate_changed_password(password_history, current_user,
                                     last'.new_password, last'.current_password) = << >>)
       => /\ last'.ret.success
          /\ users'[current_user].password_hash = hash_password(last'.new_password)
          /\ verify_password(last'.new_password,
                 password_history'[current_user][Len(password_history'[current_user])])]_vars

\* C16 (Identities are never deleted automatically): the identities that
\* existed before a restart of the process exist after it.
C16_IdentitiesKept ==
    last.op = "SecureUserManager.__init__" => last.users \subseteq DOMAIN users

\* C17 (Failures short-circuit and are audited): a signup, login or
\* change_password that fails has logged an audit event for the failure.
C17_FailuresAudited ==
    (last.op \in {"signup", "login", "change_password"} /\ ~last.ret.success)
        => last.audit # << >>

----------------------------------------------------------------------------
(* Claims about SecureStorage, checked under SpecStore *)

\* C18 (Encrypted store load): load returns the dict last saved when the
\* stored bytes decrypt under the key of the instance, and raises
\* StorageCorrupted when they do not; it does not return an empty dict for a
\* file that holds data.
C18_StoreLoad ==
    (last.op = "SecureStorage.load" /\ secure_sessions # EmptyDict)
        => IF secure_sessions.key = sm_key
           THEN last.raised = None /\ last.ret = secure_sessions.data
           ELSE last.raised = "StorageCorrupted"

----------------------------------------------------------------------------
(* More claims about the RateLimiter, checked under SpecRL *)

\* what check_login_rate_limit(e) of a limiter reloaded at time t from
\* rate_limit_data.json answers
ReloadedCheck(e, t) ==
    CheckResult(LoadLockouts(rate_limit_data, t),
                [x \in DOMAIN login_attempts |-> << >>], e, t)

\* C19 (Rate-limit state survives restart): a limiter reloaded from the
\* persisted copy allows and denies a login exactly as the running limiter
\* does.
C19_SurvivesRestart ==
    \A e \in RLEmails :
        ReloadedCheck(e, now).allowed
            = CheckResult(lockouts, login_attempts, e, now).allowed

----------------------------------------------------------------------------
(* Claims about concurrent logins, checked under SpecConc *)

\* C20 (Concurrent use on different identities): when two threads have each
\* logged in a different identity with success, the session records of both
\* are in the persisted sessions table.
C20_ConcurrentLogins ==
    \A t1 \in Threads, t2 \in Threads :
        (/\ t1 # t2
         /\ threads[t1].pc = "done" /\ threads[t1].success
         /\ threads[t2].pc = "done" /\ threads[t2].success
         /\ threads[t1].email # threads[t2].email)
        => {threads[t1].session_id, threads[t2].session_id} \subseteq DOMAIN um_sessions

----------------------------------------------------------------------------
(* Claims about the PasswordService, checked under SpecPW *)

\* C21 (Password history is a bounded FIFO): the history of an identity holds
\* at most history_count hashes; recording a hash appends it and, when the
\* history was full, drops the oldest one and nothing else; and
\* check_password_history rejects a password exactly when it matches a hash
\* that is in the history now.
C21_HistoryFIFO ==
    [][/\ \A e \in DOMAIN password_history' :
             Len(password_history'[e]) <= history_count
       /\ last'.op = "add_to_password_history"
          => LET old == Get(password_history, last'.user_email, << >>)
                 all == Append(old, last'.password_hash)
                 new == password_history'[last'.user_email]
             IN  /\ Len(new) = IF Len(old) < history_count THEN Len(old) + 1
                               ELSE history_count
                 /\ new = SubSeq(all, Len(all) - Len(new) + 1, Len(all))
       /\ last'.op = "check_password_history"
          => (last'.ret = FALSE
              <=> \E i \in 1..Len(Get(password_history, last'.user_email, << >>)) :
                     verify_password(last'.new_password,
                                     password_history[last'.user_email][i]))]_vars

\* a full history dropped its oldest hash, and the password of that hash is
\* acceptable again: the history holds history_count newer hashes
C21_Witness ==
    /\ last.op = "add_to_password_history"
    /\ last.popped # Nil
    /\ Len(password_history[last.user_email]) = history_count
    /\ \E p \in PWPasswords :
          /\ verify_password(p, last.popped)
          /\ check_password_history(password_history, last.user_email, p)

----------------------------------------------------------------------------
(* Claims about the AuditLogger, checked under SpecAudit *)

\* the age below which an event is inside the retention window
RetentionTicks == Days(audit_config.retention_days)

\* C22 (Audit log is append-only within retention): an event that is in the
\* log and is younger than the retention window is still in the log,
\* unmodified, after every step; only events older than the window are ever
\* removed.
C22_AppendOnly ==
    [][\A i \in DOMAIN events :
          now - events[i].timestamp < RetentionTicks
              => \E j \in DOMAIN events' : events'[j] = events[i]]_vars

----------------------------------------------------------------------------
(* Claims about signup, checked under SpecSignup *)

\* every password the model types in anywhere
UMAllPasswords == SignupPasswords \cup UMLoginPasswords \cup UMNewPasswords

\* a login of the identity with the password succeeds now
LogsIn(normalized_email, password) ==
    LoginOutcome(normalized_email, password, now).ret.success

----------------------------------------------------------------------------
(* Claims about the session limit, checked under SpecSM *)

\* C25 (create_session raises at the limit): a create_session for an identity
\* that already holds max_sessions_per_user active sessions ends in an
\* exception, that is, it hands out no session: the session id of the call
\* is not in the session table afterwards.
C25_LimitRaises ==
    [][\A user_data \in SMUsers, remember_me \in BOOLEAN :
          (/\ Cardinality(ActiveSessions(sessions, user_data.email)) >= M
           /\ create_session(user_data, remember_me))
          => last'.session_id \notin DOMAIN sessions']_vars

----------------------------------------------------------------------------
(* Claims about the window of the RateLimiter, checked under SpecRL *)

\* every attempt the limiter holds for the identity is older than the window
AllOlderThanWindow(e, t) ==
    /\ login_attempts[e] # << >>
    /\ \A i \in DOMAIN login_attempts[e] : login_attempts[e][i] < t - WindowTicks

\* C26 (Lock requires T failures inside one window): failures spread over
\* more than W do not lock the account.  When an identity is not locked and
\* every earlier attempt the limiter holds for it is older than W, a failed
\* attempt recorded now is the only failure inside the window, and the
\* identity is not locked after it.
C26_LockNeedsWindow ==
    [][\A e \in RLEmails :
          (/\ ~IsLocked(lockouts, e, now)
           /\ AllOlderThanWindow(e, now)
           /\ record_login_attempt(e, FALSE))
          => ~IsLocked(lockouts', e, now)]_vars

\* C27 (Sliding-window invariant): after every check_login_rate_limit and
\* every record_login_attempt on an identity, the attempts the limiter holds
\* for that identity include no timestamp older than the window W.
C27_SlidingWindow ==
    [][\A e \in RLEmails :
          (\/ check_login_rate_limit(e)
           \/ \E success \in BOOLEAN : record_login_attempt(e, success))
          => \A i \in DOMAIN login_attempts'[e] :
                 ~(login_attempts'[e][i] < now - WindowTicks)]_vars

----------------------------------------------------------------------------
(* Claims about the RateLimiter under concurrency *)

\* C28 (get_user_status always returns): a get_user_status called while no
\* thread holds the limiter's lock returns in the end.  Checked under
\* SpecRLConcFair.
C28_StatusReturns ==
    \A th \in Threads :
        (threads[th].pc = "get_user_status" /\ rl_lock = NoThread)
            ~> (last.op = "get_user_status returned" /\ last.thread = th)

\* the attempts of an identity inside the window
InWindow(e) == {i \in DOMAIN login_attempts[e] : login_attempts[e][i] > now - WindowTicks}

\* C29 (The attempt limit holds under concurrency): whatever the threads
\* running login do, no identity has more than T attempts inside one window
\* and no failure counter exceeds T.  Checked under SpecRLConc.
C29_LimitUnderConcurrency ==
    \A e \in RLEmails :
        /\ Cardinality(InWindow(e)) <= T
        /\ Get(failed_attempts, e, 0) <= T

----------------------------------------------------------------------------
(* Claims about the background sweep of the RateLimiter, checked under SpecRL *)

\* C30 (Sweeps are optional): a run of _cleanup_expired_entries changes
\* nothing a caller can see: in the state after the sweep, as in the state
\* before it, check_login_rate_limit and is_user_locked_out return the same
\* for every identity, and a record_login_attempt leaves the identity locked
\* out for the same time or not locked out in both.
C30_SweepsOptional ==
    [][last'.op = "_cleanup_expired_entries" =>
       \A e \in RLEmails :
          /\ CheckResult(lockouts', login_attempts', e, now)
                 = CheckResult(lockouts, login_attempts, e, now)
          /\ LockedOutResult(lockouts', e, now) = LockedOutResult(lockouts, e, now)
          /\ \A success \in BOOLEAN :
                 LockedOutResult(AfterRecord(RLState', e, success, now).lockouts, e, now)
                     = LockedOutResult(AfterRecord(RLState, e, success, now).lockouts, e, now)]_vars

----------------------------------------------------------------------------
(* Claims about remember-me sessions, checked under SpecRemember *)

\* C31 (Remember-me sessions outlive the access token): a validate_session
\* of an active remember-me session that is not past its own expires_at
\* leaves the session active, whatever the state of its access token.
C31_RememberMeOutlives ==
    [][\A sid \in DOMAIN sessions :
          (/\ sessions[sid].remember_me
           /\ sessions[sid].is_active
           /\ ~(now > FromIsoFormat(sessions[sid].expires_at))
           /\ validate_session(sid, Nil))
          => sessions'[sid].is_active]_vars

----------------------------------------------------------------------------
(* Claims about the tokens of a session, checked under SpecSM *)

\* the access token create_session made for a session: create_token_pair
\* draws its jti just before the jti of the refresh token, which the session
\* keeps for its whole life
FirstAccessToken(session_data) ==
    create_access_token([email |-> session_data.user_email, name |-> session_data.user_name],
                        FromIsoFormat(session_data.created_at),
                        session_data.refresh_token.payload.jti - 1)

\* C32 (Invalidation revokes every token of the session): once a session is
\* invalidated, validate_session rejects the access token create_session
\* issued for it, also when a refresh_session has replaced that token in the
\* session since.
C32_InvalidationRevokesAll ==
    \A sid \in DOMAIN sessions :
        ~sessions[sid].is_active
            => ~ValidateResult(SMState, NoSid, FirstAccessToken(sessions[sid]), now).valid

----------------------------------------------------------------------------
(* Claims about the limiter in the login pipeline, checked under SpecPipeline *)

\* the base lockout duration
BaseLockout == Seconds(config.lockout_duration_minutes * 60)

\* C33 (Failure counter bound in the login pipeline): when every
\* record_login_attempt follows a check_login_rate_limit that allowed the
\* attempt, in one thread and without a restart, no failure counter exceeds
\* T, and every lockout that is set lasts the base lockout duration.
C33_PipelineBound ==
    [][\A e \in RLEmails :
          /\ Get(failed_attempts', e, 0) <= T
          /\ (e \in DOMAIN lockouts' /\ Get(lockouts, e, 0) # lockouts'[e])
                 => lockouts'[e] = now + BaseLockout]_vars

\* a login recorded the failure that locked the identity, for the second time
C33_Witness ==
    /\ last.op = "login"
    /\ last.allowed /\ ~last.success
    /\ now > 0
    /\ \E e \in RLEmails :
           /\ IsLocked(lockouts, e, now)
           /\ lockouts[e] = now + BaseLockout
           /\ failed_attempts[e] = T

\* the attempts of an identity that are not older than the window
Window(e) == SelectSeq(login_attempts[e], LAMBDA a : ~(a < now - WindowTicks))

\* C34 (Successes consume the window): a login of an identity that is not
\* locked out is allowed exactly when fewer than T attempts, successful or
\* not, are inside the window; an allowed login adds its attempt to the
\* window whether it succeeds or fails, and a denied one is given the time
\* until the oldest attempt leaves the window.
C34_SuccessesConsume ==
    [][\A e \in RLEmails, success \in BOOLEAN :
          (~IsLocked(lockouts, e, now) /\ LimiterLogin(e, success))
          => /\ last'.allowed = (Len(Window(e)) < T)
             /\ last'.allowed => login_attempts'[e] = Append(Window(e), now)
             /\ ~last'.allowed =>
                    /\ login_attempts'[e] = Window(e)
                    /\ CheckResult(lockouts, login_attempts, e, now).retry_after
                           = IntSeconds(WindowTicks - (now - Window(e)[1]))]_vars

\* a login was denied although the identity has no failure and no lockout:
\* the T attempts inside the window were successes
C34_Witness ==
    /\ last.op = "login"
    /\ ~last.allowed
    /\ \E e \in RLEmails :
           /\ Get(failed_attempts, e, 0) = 0
           /\ e \notin DOMAIN lockouts
           /\ streak[e] = 0
           /\ Len(login_attempts[e]) = T

----------------------------------------------------------------------------
(* Claims about the lockout duration, checked under SpecLockout *)

CapMinutes == config.max_lockout_duration_hours * 60

\* C35: a recorded failure that brings the failure counter to n >= T sets
\* locked_until to now + lockout_duration_minutes * 2^(n - T) minutes,
\* capped at max_lockout_duration_hours * 60 minutes: the base duration at
\* n = T, twice the duration of n at n + 1 up to the cap, never more than
\* the cap; a failure that leaves the counter under T sets no lockout.
C35_LockoutDuration ==
    [][\A e \in RLEmails :
          record_login_attempt(e, FALSE) =>
              LET n == Get(failed_attempts, e, 0) + 1
                  minutes(k) == Min(config.lockout_duration_minutes * Pow2(k - T),
                                    CapMinutes)
              IN  /\ failed_attempts'[e] = n
                  /\ n >= T =>
                        /\ lockouts'[e] = now + Seconds(minutes(n) * 60)
                        /\ lockouts'[e] - now <= Seconds(CapMinutes * 60)
                        /\ n = T => minutes(n) = Min(config.lockout_duration_minutes,
                                                     CapMinutes)
                        /\ n > T => minutes(n) = Min(2 * minutes(n - 1), CapMinutes)
                  /\ n < T => lockouts' = lockouts]_vars

\* a failure whose doubled duration is cut to the cap
C35_Witness ==
    /\ last.op = "record_login_attempt"
    /\ \E e \in RLEmails :
          /\ e \in DOMAIN lockouts
          /\ Get(failed_attempts, e, 0) > T
          /\ config.lockout_duration_minutes * Pow2(failed_attempts[e] - T) > CapMinutes
          /\ lockouts[e] - now = Seconds(CapMinutes * 60)

----------------------------------------------------------------------------
(* Claims about the retention purge, checked under SpecAudit *)

\* C36 (No purge on the hot path): log_event only appends; the events older
\* than the retention window are removed elsewhere, so the number of stored
\* events never decreases across a log_event call.
C36_NoPurgeInLogEvent ==
    [][last'.op = "log_event" => Len(events') >= Len(events)]_vars

----------------------------------------------------------------------------
(* Claims about the startup sweep, checked under SpecRestart *)

\* the sessions of a table that are active and not past their expires_at
LiveSessions(ss, t) ==
    {sid \in DOMAIN ss : ss[sid].is_active /\ ~(t > FromIsoFormat(ss[sid].expires_at))}

\* the sweep of a running manager leaves exactly the live sessions, as they
\* were
SweepKeepsLive ==
    [][CleanupExpiredSessions
          => /\ DOMAIN sessions' = LiveSessions(sessions, now)
             /\ \A sid \in DOMAIN sessions' : sessions'[sid] = sessions[sid]]_vars

\* C37 (Startup sweep): after a restart the session table holds no session
\* that is past its expires_at or inactive, and every session created before
\* the restart that is still active and unexpired is present.
C37_StartupSweep ==
    [][RestartSessionManager
          => /\ LiveSessions(sessions', now) = DOMAIN sessions'
             /\ LiveSessions(sessions, now) \subseteq DOMAIN sessions']_vars

----------------------------------------------------------------------------
(* Claims about the files of the subsystem, checked under SpecSignup *)

\* a file holds ciphertext: a value readable only under the key it was
\* written with
Encrypted(file) == DOMAIN file = {"key", "data"}

\* C38 (Encrypted at rest): every table the subsystem persists reaches disk
\* only in encrypted form: whenever rate_limit_data.json,
\* password_history.json, token_blacklist.json or secure_sessions.enc is
\* written, what is written is ciphertext.
C38_EncryptedAtRest ==
    [][/\ rate_limit_data' # rate_limit_data => Encrypted(rate_limit_data')
       /\ password_history' # password_history => Encrypted(password_history')
       /\ blacklist_file' # blacklist_file => Encrypted(blacklist_file')
       /\ secure_sessions' # secure_sessions => Encrypted(secure_sessions')]_vars

----------------------------------------------------------------------------
(* Claims about the compaction of the blacklist, checked under SpecCompact *)

\* C39 (Blacklist compaction): when cleanup_expired_blacklist compacts an
\* over-limit blacklist, it only drops entries, the size that results is
\* within the bound, and every entry it keeps was added more recently than
\* every entry it drops.
C39_KeepsMostRecent ==
    [][(cleanup_expired_blacklist /\ Cardinality(blacklist) > BlacklistLimit)
          => /\ blacklist' \subseteq blacklist
             /\ Cardinality(blacklist') <= BlacklistLimit
             /\ \A kept \in blacklist', dropped \in blacklist \ blacklist' :
                    kept > dropped]_vars

----------------------------------------------------------------------------
(* Claims about the signing key, checked under SpecKeyFail *)

\* C40 (Signing-key failure is fatal): a JWTManager whose keys could not be
\* initialized from the keyring issues no tokens: every token that is issued
\* is issued by a manager that holds the key of the keyring, and signed with
\* it, never with a substitute key.
C40_KeyFailureFatal ==
    [][\A m \in issued' \ issued :
          /\ jwt_secret = keyring
          /\ m.token.sig = keyring]_vars

====
